---- MODULE Spec2Model ----
(***************************************************************************)
(* auto-mpeg: the video pipeline orchestrator (VideoOrchestrator.execute), *)
(* the speech-synthesis stage (TTSModule.execute), script generation and   *)
(* the quality gate (QualityReviewModule), as state machines.              *)
(*                                                                         *)
(* Times are JavaScript numbers in seconds, with the arithmetic of         *)
(* doubles: synthesizeSpeech returns (words / 150) * 60, the loop of       *)
(* execute adds the durations up and formatSRTTime takes the sums apart.   *)
(* The alignment engine counts in milliseconds.                            *)
(***************************************************************************)
EXTENDS Integers, Sequences, FiniteSets, TLC

\* ---------------------------------------------------------------- bounds
MaxSentences == 2
MaxSentenceWords == 1
MaxWords == 2
MaxIssues == 4
MaxSections == 2
MaxLines == 2
MaxScriptLines == 3
MaxClock == 1
MaxImportantWords == 2
MaxTextSentences == 4
MaxTextWords == 3
MaxPlan == 3

\* ------------------------------------------------------ program constants
BaseScore == 100
PenaltyCritical == 30
PenaltyHigh == 20
PenaltyMedium == 10
PenaltyLow == 5
ApproveThreshold == 80
ReviseThreshold == 60
WordsPerMinute == 150
SecondsPerMinute == 60
MsPerWord == 400
Undefined == -1

\* startTime?: number, endTime?: number of a ScriptLine not set yet, and a
\* duration nothing has been assigned to.
NoTime == <<>>

\* QualityIssue.severity
Severity == {"low", "medium", "high", "critical"}

\* PlannerModule.createVideoPlan: the fixed five-entry structure.
PlanStructure == <<"hook", "introduction", "main_content", "summary", "conclusion">>

\* ModuleType values of the nine stages, in the order execute calls them.
StageOrder ==
  <<"content_intake", "content_analyzer", "planner", "script_generator",
    "quality_review", "tts", "subtitle_generator", "video_composer",
    "thumbnail_generator">>

Stages == {StageOrder[i] : i \in 1..Len(StageOrder)}

\* Sequences over S of length 0..n.
SeqUpTo(S, n) == UNION {[1..k -> S] : k \in 0..n}

Max(a, b) == IF a >= b THEN a ELSE b
Min(a, b) == IF a <= b THEN a ELSE b

\* ------------------------------------------------ numbers (IEEE 754 doubles)
\* A time is a JavaScript number. It is held exactly, as an integer part and
\* 128 fraction bits in eight limbs of 16 bits, most significant first: every
\* double from 2^-76 up to 2^16 is such a value, and so is every quotient,
\* product and remainder the program takes of a time of 2^-8 s or more. An
\* operation gives the exact result rounded to 53 significant bits, ties to
\* even, as the double operation does.

\* 2^k for k up to 16, the size of a limb.
Pow2(k) ==
  <<1, 2, 4, 8, 16, 32, 64, 128, 256, 512, 1024, 2048, 4096, 8192, 16384, 32768, 65536>>[k + 1]

\* The double of a small integer.
Number(n) == <<n, 0, 0, 0, 0, 0, 0, 0, 0>>

\* 2^i in the same form, bit 0 being the last fraction bit.
OneBit(i) ==
  [j \in 1..Len(Number(0)) |->
     IF Len(Number(0)) - (i \div 16) = j THEN Pow2(i % 16) ELSE 0]

\* x < y
LessThan(x, y) == \E j \in 1..Len(x) : x[j] < y[j] /\ \A k \in 1..(j - 1) : x[k] = y[k]

\* The limbs 1..j of the exact sum x + y, carry coming from the limbs below.
RECURSIVE SumLimbs(_, _, _, _)
SumLimbs(x, y, j, carry) ==
  IF j = 0 THEN <<>>
  ELSE LET s == x[j] + y[j] + carry
       IN Append(SumLimbs(x, y, j - 1, s \div Pow2(16)), s % Pow2(16))

\* The limbs 1..j of the exact product x * c, c an integer.
RECURSIVE ProductLimbs(_, _, _, _)
ProductLimbs(x, c, j, carry) ==
  IF j = 0 THEN <<>>
  ELSE LET s == x[j] * c + carry
       IN Append(ProductLimbs(x, c, j - 1, s \div Pow2(16)), s % Pow2(16))

\* The limbs j.. of the quotient x / d cut off after the last fraction bit,
\* d an integer, followed by the remainder.
RECURSIVE QuotientLimbs(_, _, _, _)
QuotientLimbs(x, d, j, rem) ==
  IF j > Len(x) THEN <<rem>>
  ELSE LET n == rem * Pow2(16) + x[j]
       IN <<n \div d>> \o QuotientLimbs(x, d, j + 1, n % d)

\* Rounding of an exact value to a double: 53 significant bits are kept, the
\* bits below them round to nearest, a tie to the even neighbour. length is
\* the number of bits of x up to its leading one, low the bits of x below the
\* 53 kept, bit the last bit kept (bit 0 being the last fraction bit).
RoundToDouble(x) ==
  LET limbs == Len(x)
      length ==
        IF x = Number(0) THEN 0
        ELSE LET j == CHOOSE k \in 1..limbs : x[k] # 0 /\ \A h \in 1..(k - 1) : x[h] = 0
                 b == CHOOSE k \in 1..16 : Pow2(k - 1) <= x[j] /\ x[j] < Pow2(k)
             IN 16 * (limbs - j) + b
      n == length - 53
  IN IF n <= 0 THEN x
     ELSE LET low == [j \in 1..limbs |->
                        LET lo == 16 * (limbs - j)
                        IN IF n >= lo + 16 THEN x[j]
                           ELSE IF n <= lo THEN 0 ELSE x[j] % Pow2(n - lo)]
              high == [j \in 1..limbs |-> x[j] - low[j]]
              half == OneBit(n - 1)
              bit == (x[limbs - (n \div 16)] \div Pow2(n % 16)) % 2
              up == LessThan(half, low) \/ (low = half /\ bit = 1)
          IN IF up THEN SumLimbs(high, OneBit(n), limbs, 0) ELSE high

\* x + y
Add(x, y) == RoundToDouble(SumLimbs(x, y, Len(x), 0))

\* x * c, c an integer
Multiply(x, c) == RoundToDouble(ProductLimbs(x, c, Len(x), 0))

\* x / d, d an integer: a remainder left after the last fraction bit is kept
\* as a one in that bit, which rounds as the exact quotient does, the 53 bits
\* kept ending above it: so for every quotient of 2^-73 or more, which those
\* of a time of 2^-8 s or more by 150, 60 and 3600 are.
Divide(x, d) ==
  LET q == QuotientLimbs(x, d, 1, 0)
      limbs == Len(x)
  IN RoundToDouble([j \in 1..limbs |->
                      IF j = limbs /\ q[limbs + 1] # 0 /\ q[limbs] % 2 = 0
                      THEN q[limbs] + 1
                      ELSE q[j]])

\* x % m, m an integer: exact.
Remainder(x, m) == [x EXCEPT ![1] = @ % m]

\* Math.floor(x)
MathFloor(x) == x[1]

\* ------------------------------------------------------------ quality gate

\* Fault: the `low` case adds its 5 points instead of subtracting them.
PenaltyMutant(sev) ==
  CASE sev = "critical" -> PenaltyCritical
    [] sev = "high" -> PenaltyHigh
    [] sev = "medium" -> PenaltyMedium
    [] sev = "low" -> 0 - PenaltyLow
    [] OTHER -> 0
\* The switch of calculateQualityScore: what one issue subtracts.
Penalty(sev) ==
  CASE sev = "critical" -> PenaltyCritical
    [] sev = "high" -> PenaltyHigh
    [] sev = "medium" -> PenaltyMedium
    [] sev = "low" -> PenaltyLow
    [] OTHER -> 0

\* The for loop of calculateQualityScore: score after the issues from index i on.
RECURSIVE ScoreLoop(_, _, _)
ScoreLoop(issues, i, score) ==
  IF i > Len(issues) THEN score
  ELSE ScoreLoop(issues, i + 1, score - Penalty(issues[i]))

\* Fault: the score is returned without the floor.
Floor0Mutant(score) == score
\* return Math.max(0, score)
Floor0(score) == Max(0, score)

\* Fault: the loop starts at the second issue.
calculateQualityScoreMutant(issues) == Floor0(ScoreLoop(issues, 2, BaseScore))
\* calculateQualityScore: the loop over all the issues from 100, then the floor.
calculateQualityScore(issues) == Floor0(ScoreLoop(issues, 1, BaseScore))

\* Fault: the two thresholds are compared with > instead of >=.
RecommendationMutant(score) ==
  IF score > ApproveThreshold THEN "approve"
  ELSE IF score > ReviseThreshold THEN "revise"
  ELSE "reject"
\* reviewScript: the recommendation from the score.
Recommendation(score) ==
  IF score >= ApproveThreshold THEN "approve"
  ELSE IF score >= ReviseThreshold THEN "revise"
  ELSE "reject"

IssueLists == SeqUpTo(Severity, MaxIssues)

\* -------------------------------------------------------- script generation

\* A ScriptLine as generateScript builds it: id and sectionId stand for the
\* fresh uuids (one per section, one per line), words for text.split(/\s+/).length.
ScriptLine(sec, idx, words) ==
  [id |-> <<sec, idx>>, sectionId |-> sec, words |-> words, order |-> idx - 1,
   startTime |-> NoTime, endTime |-> NoTime]

\* Fault: Math.floor instead of Math.ceil.
extractSentencesForSectionMutant(allSentences, sectionIndex, totalSections) ==
  LET sentencesPerSection == Len(allSentences) \div totalSections
      start == sectionIndex * sentencesPerSection
      end == Min(start + sentencesPerSection, Len(allSentences))
  IN SubSeq(allSentences, start + 1, end)
\* extractSentencesForSection, sectionIndex counted from 0 as in the code;
\* sentencesPerSection is Math.ceil(allSentences.length / totalSections).
extractSentencesForSection(allSentences, sectionIndex, totalSections) ==
  LET sentencesPerSection == (Len(allSentences) + totalSections - 1) \div totalSections
      start == sectionIndex * sentencesPerSection
      end == Min(start + sentencesPerSection, Len(allSentences))
  IN SubSeq(allSentences, start + 1, end)

\* One ScriptSection from the sentences handed to it.
ScriptSection(i, type, sentences) ==
  [id |-> i, type |-> type, order |-> i - 1,
   lines |-> [j \in 1..Len(sentences) |-> ScriptLine(i, j, sentences[j])]]

\* generateScript: one section per plan entry.
generateScript(allSentences, structure) ==
  [sections |->
     [i \in 1..Len(structure) |->
        ScriptSection(i, structure[i],
                      extractSentencesForSection(allSentences, i - 1, Len(structure)))]]

NoScript == [sections |-> <<>>]

\* --------------------------------------------------------------- errors
\* An error value: name is Error.name, moduleType and originalError are the two
\* extra fields of ModuleError (absent on a plain Error), message is the kind of
\* text and names the stage the text mentions.

NoError ==
  [name |-> "none", moduleType |-> "none", originalError |-> FALSE,
   message |-> "none", names |-> "none"]

\* new ModuleError(moduleType, `<stage> failed: ${error.message}`, error): what
\* every module's execute throws from its catch block.
ModuleError(moduleType) ==
  [name |-> "ModuleError", moduleType |-> moduleType, originalError |-> TRUE,
   message |-> "module_failed", names |-> moduleType]

\* throw new Error('<stage> failed') in execute, after a result without success
\* or without data.
StageFailedError(stage) ==
  [name |-> "Error", moduleType |-> "none", originalError |-> FALSE,
   message |-> "stage_failed", names |-> stage]

\* throw new Error(`quality review failed: score too low (${score}/100)`)
QualityRejectedError ==
  [name |-> "Error", moduleType |-> "none", originalError |-> FALSE,
   message |-> "score_too_low", names |-> "quality_review"]

\* What fs.mkdir, fs.copyFile and fs.writeFile reject with inside execute and
\* packageOutputs: a plain system error, rethrown as it is.
FsError ==
  [name |-> "Error", moduleType |-> "none", originalError |-> FALSE,
   message |-> "fs", names |-> "none"]

\* ---------------------------------------------------------------- state
VARIABLES
  sentences,            \* input: the source sentences, each as its word count
  qualityCheckEnabled,  \* OrchestratorConfig.qualityCheckEnabled
  plan,                 \* input.plan.structure: the section types the planner laid out
  pc,                   \* where execute is: "start", "mkdir", a stage, "package", "returned", "thrown"
  status,               \* jobContext.status ("none" before the job exists)
  active,               \* the calls execute has made that have not returned yet
  calls,                \* the calls made so far, in order (stages and "package")
  succeeded,            \* the calls that returned a successful result
  verdict,              \* reviewResult.data.recommendation ("none" without a review)
  script,               \* scriptResult.data, the one object handed from stage to stage
  totalDuration,        \* ttsResult.data.totalDuration
  outputPackage,        \* what packageOutputs returned
  returned,             \* what execute returned
  err,                  \* what execute threw
  ttsPc,                \* where TTSModule.execute is
  ttsPos,               \* the (section, line) the TTS loops are at
  audioSegments,        \* TTSModule.execute: audioSegments
  attempts,             \* synthesizeSpeech calls made for the line the loop is at
  files,                \* the file system: the files written so far, as [path, content]
  clock,                \* Date.now(), in the unit that two file names can share
  cancelRequested,      \* the caller has asked for the job to be cancelled
  exitCode,             \* main: the process exit code (Undefined while running)
  stderr,               \* main: what was written to the error stream
  jobs,                 \* execute calls sharing the process: how far each is, the Date.now() values it read
  alignment,            \* AlignmentEngine.resolve: inputs, cursors, cues so far
  subtitleEntries,      \* SubtitleGeneratorOutput.entries of the last subtitle stage result
  fsCalls,              \* the awaited call's file system calls: how many are done, one open, one rejected
  stamps,               \* per stage, the Date.now() value in the paths its result carries
  currentTime,          \* TTSModule.execute: currentTime
  issueList,            \* reviewScript: issues, while a list is being scored
  qualityScore          \* reviewScript: score (Undefined until computed)

vars ==
  <<sentences, qualityCheckEnabled, plan, pc, status, active, calls, succeeded, verdict,
    script, totalDuration, outputPackage, returned, err, ttsPc, ttsPos,
    audioSegments, attempts, currentTime, issueList, qualityScore, files, clock,
    cancelRequested, exitCode, stderr, jobs, alignment, subtitleEntries, fsCalls, stamps>>

reviewVars == <<issueList, qualityScore>>
inputVars == <<sentences, qualityCheckEnabled, plan>>
jobVars == <<pc, status, active, calls, succeeded, verdict, outputPackage, returned, err>>
runVars == <<pc, status, active, calls, succeeded, outputPackage, returned, err>>
ttsVars == <<ttsPc, ttsPos, audioSegments, currentTime, attempts>>
fsVars == <<files, clock>>
envVars == <<cancelRequested, exitCode, stderr>>
callVars == <<fsCalls, stamps>>

\* No execute call besides the one the other variables follow.
NoJobs == <<>>

\* No file system call of the awaited call has been made.
NoCalls == [done |-> 0, open |-> FALSE, rejected |-> FALSE]

\* No stage has named a file yet; "audio" is the name of a line's segment,
\* "tts" that of the master file.
NoStamps == [s \in Stages \cup {"audio"} |-> Undefined]

\* AlignmentEngine.resolve has not been called.
NoAlignment == <<>>

NoPackage == [jobId |-> "none", duration |-> NoTime]

\* ----------------------------------------------------------- file system
\* files holds one record per file, [path, content]; a path is written as its
\* directory, the fixed part of its name and the Date.now() stamp in the name.

\* path.join(process.cwd(), 'outputs', 'temp', `<name>_${Date.now()}.<ext>`)
TempPath(name, now) == [dir |-> "outputs/temp", name |-> name, stamp |-> now]

\* path.join(jobContext.outputPath, '<name>'), outputPath being the job's
\* own directory, named after its uuid.
FinalPathIn(dir, name) == [dir |-> dir, name |-> name, stamp |-> 0]
FinalPath(name) == FinalPathIn("outputs/job", name)

ContentOf(fs, p) == (CHOOSE f \in fs : f.path = p).content

\* fs.writeFile(p, content): the file is created, or replaced if it exists.
writeFile(fs, p, content) ==
  {f \in fs : f.path # p} \cup {[path |-> p, content |-> content]}

\* fs.copyFile(from, to), from being an existing file.
copyFile(fs, from, to) == writeFile(fs, to, ContentOf(fs, from))

\* One file system call of a stage, as a value.
WriteOp(p, content) == [kind |-> "write", path |-> p, from |-> p, content |-> content]
CopyOp(from, to) == [kind |-> "copy", path |-> to, from |-> from, content |-> ""]

ApplyOp(fs, op) ==
  IF op.kind = "copy" THEN copyFile(fs, op.from, op.path)
  ELSE writeFile(fs, op.path, op.content)

\* The file system after the first n of the calls ops, made in order.
RECURSIVE ApplyOps(_, _, _)
ApplyOps(fs, ops, n) ==
  IF n = 0 THEN fs
  ELSE ApplyOp(ApplyOps(fs, ops, n - 1), ops[n])

\* What a file holds after a write to it was cut short: part of the data.
Partial == "partial"

\* What a file holds once a call has opened it for writing and before data
\* has gone in: nothing.
Empty == ""

\* fs.writeFile and fs.copyFile in progress: the target is open, created or
\* cut to length 0, the data is still to come.
Opened(fs, op) == writeFile(fs, op.path, Empty)

\* The file systems a rejected call can leave. fs.writeFile opens its target
\* with truncation and writes in place, so it can reject before touching
\* the target or with part of the data in it, which of no data is nothing;
\* fs.copyFile can reject before opening its target or after, and then
\* removes the target.
AfterRejected(fs, op) ==
  IF op.kind = "copy"
  THEN {fs, {f \in fs : f.path # op.path}}
  ELSE {fs, writeFile(fs, op.path, IF op.content = Empty THEN Empty ELSE Partial)}

\* The paths composeVideo derives from the background video's path.
BackgroundPath(now) == TempPath("background", now)
WithAudioPath(now) == TempPath("background_with_audio", now)
WithSubsPath(now) == TempPath("background_with_audio_with_subs", now)

\* The file system calls a module makes in one execute, in order;
\* subtitleContent is the text the subtitle module has generated from its
\* input by then.
StageOps(s, now, subtitleContent) ==
  CASE s = "subtitle_generator" -> <<WriteOp(TempPath("subtitles", now), subtitleContent)>>
    [] s = "video_composer" ->
         <<WriteOp(BackgroundPath(now), "...MP4..."),
           CopyOp(BackgroundPath(now), WithAudioPath(now)),
           CopyOp(WithAudioPath(now), WithSubsPath(now)),
           WriteOp(WithSubsPath(now), "...MP4...")>>
    [] s = "thumbnail_generator" -> <<WriteOp(TempPath("thumbnail", now), "...PNG...")>>
    [] OTHER -> <<>>

\* The copies and writes of packageOutputs, in order: from the paths the
\* stage results carry, at[s] being the stamp stage s put in its file names,
\* to the final names in the job's directory.
PackageOpsIn(dir, at) ==
  <<CopyOp(WithSubsPath(at["video_composer"]), FinalPathIn(dir, "final_video.mp4")),
    CopyOp(WithAudioPath(at["video_composer"]), FinalPathIn(dir, "final_video_clean.mp4")),
    CopyOp(TempPath("subtitles", at["subtitle_generator"]),
           FinalPathIn(dir, "video_subtitles.srt")),
    CopyOp(TempPath("master_audio", at["tts"]), FinalPathIn(dir, "audio_master.wav")),
    CopyOp(TempPath("thumbnail", at["thumbnail_generator"]),
           FinalPathIn(dir, "thumbnail_base.png")),
    WriteOp(FinalPathIn(dir, "script.json"), "script"),
    WriteOp(FinalPathIn(dir, "metadata.json"), "metadata")>>

\* packageOutputs of the one job, on the paths its stage results carry.
PackageOps == PackageOpsIn(FinalPath("").dir, stamps)

\* Time passes between two reads of Date.now(): the next read gives a later
\* value.
ClockTick ==
  /\ clock < MaxClock
  /\ clock' = clock + 1
  /\ UNCHANGED <<inputVars, callVars, alignment, subtitleEntries, jobs, reviewVars, envVars,
                 files, jobVars, ttsVars, script, totalDuration>>

\* ------------------------------------------------------- TTSModule.execute

\* The two nested for-of loops: the first line at or after (s, l), or
\* (Len(sections) + 1, 1) when the loops are over.
RECURSIVE NextPos(_, _, _)
NextPos(sections, s, l) ==
  IF s > Len(sections) THEN <<Len(sections) + 1, 1>>
  ELSE IF l <= Len(sections[s].lines) THEN <<s, l>>
  ELSE NextPos(sections, s + 1, 1)

\* synthesizeSpeech: the path of the file it writes, named after Date.now(),
\* and duration = (words / 150) * 60.
synthesizeSpeech(words, now) ==
  [path |-> TempPath("audio", now),
   duration |-> Multiply(Divide(Number(words), WordsPerMinute), SecondsPerMinute)]

\* Fault: endTime is the duration alone, not currentTime + duration.
AudioSegmentMutant(line, audioResult, now) ==
  [lineId |-> line.id, filePath |-> audioResult.path, duration |-> audioResult.duration,
   startTime |-> now, endTime |-> audioResult.duration]
\* The AudioSegment literal built for one line.
AudioSegment(line, audioResult, now) ==
  [lineId |-> line.id, filePath |-> audioResult.path, duration |-> audioResult.duration,
   startTime |-> now, endTime |-> Add(now, audioResult.duration)]

\* Fault: unshift instead of push.
PushSegmentMutant(segments, segment) == <<segment>> \o segments
\* audioSegments.push(segment)
PushSegment(segments, segment) == Append(segments, segment)

\* Fault: the assignment to the line also wipes its text.
StampLineMutant(line, start, end) ==
  [line EXCEPT !.startTime = start, !.endTime = end, !.words = 0]
\* Fault: only startTime is assigned.
StampLineStartMutant(line, start, end) ==
  [line EXCEPT !.startTime = start]
\* line.startTime = currentTime; line.endTime = currentTime + duration: the
\* two assignments to the line object of the input script.
StampLine(line, start, end) ==
  [line EXCEPT !.startTime = start, !.endTime = end]

\* await this.validate(input), then the loop variables are set up.
TTSValidate ==
  /\ ttsPc = "validate"
  /\ IF Len(script.sections) = 0
     THEN /\ ttsPc' = "thrown"
          /\ UNCHANGED <<ttsPos, audioSegments, currentTime, attempts>>
     ELSE /\ ttsPc' = "loop"
          /\ audioSegments' = <<>>
          /\ currentTime' = Number(0)
          /\ attempts' = 0
          /\ ttsPos' = NextPos(script.sections, 1, 1)
  /\ UNCHANGED <<inputVars, callVars, alignment, subtitleEntries, jobs, reviewVars, envVars, fsVars, jobVars, script, totalDuration>>

\* The line the loops are at.
CurrentLine == script.sections[ttsPos[1]].lines[ttsPos[2]]

\* The writeFile of synthesizeSpeech, on the path it made.
SegmentWrite == WriteOp(synthesizeSpeech(CurrentLine.words, stamps["audio"]).path, "RIFF....WAVE")

\* The top of the inner loop body: synthesizeSpeech is called for the line,
\* makes tempPath from the Date.now() it reads and awaits fs.mkdir.
SynthesizeSpeechCall ==
  /\ ttsPc = "loop"
  /\ ttsPos[1] <= Len(script.sections)
  /\ ttsPc' = "synthesize"
  /\ stamps' = [stamps EXCEPT !["audio"] = clock]
  /\ UNCHANGED <<inputVars, fsCalls, alignment, subtitleEntries, jobs, reviewVars, envVars,
                 fsVars, jobVars, script, totalDuration, ttsPos, audioSegments,
                 currentTime, attempts>>

\* fs.writeFile of synthesizeSpeech has opened the segment file.
SynthesizeSpeechOpen ==
  /\ ttsPc = "synthesize"
  /\ ~fsCalls.open
  /\ files' = Opened(files, SegmentWrite)
  /\ fsCalls' = [fsCalls EXCEPT !.open = TRUE]
  /\ UNCHANGED <<inputVars, stamps, alignment, subtitleEntries, jobs, reviewVars, envVars,
                 clock, jobVars, script, totalDuration, ttsVars>>

\* The awaited fs.writeFile (or fs.mkdir) of synthesizeSpeech settles: the
\* segment file is written, or the call rejects and execute's catch block is
\* entered. synthesizeSpeech is called once for the line.
SynthesizeSpeechSettle(ok) ==
  /\ ttsPc = "synthesize"
  /\ IF ok
     THEN /\ files' = ApplyOp(files, SegmentWrite)
          /\ ttsPc' = "synthesized"
          /\ UNCHANGED attempts
     ELSE /\ files' \in AfterRejected(files, SegmentWrite)
          /\ ttsPc' = "thrown"
          /\ attempts' = attempts + 1
  /\ fsCalls' = [fsCalls EXCEPT !.open = FALSE]
  /\ UNCHANGED <<inputVars, stamps, alignment, subtitleEntries, jobs, reviewVars, envVars,
                 clock, jobVars, script, totalDuration, ttsPos, audioSegments, currentTime>>

\* The rest of the inner loop body, run when synthesizeSpeech has returned: the
\* segment, the line's timestamps and currentTime, then the next line.
TTSSynthesize ==
  /\ ttsPc = "synthesized"
  /\ LET s == ttsPos[1]
         l == ttsPos[2]
         line == CurrentLine
         audioResult == synthesizeSpeech(line.words, stamps["audio"])
     IN /\ attempts' = 0
        /\ audioSegments' =
             PushSegment(audioSegments, AudioSegment(line, audioResult, currentTime))
        /\ script' = [script EXCEPT !.sections[s].lines[l] =
             StampLine(line, currentTime, Add(currentTime, audioResult.duration))]
        /\ currentTime' = Add(currentTime, audioResult.duration)
        /\ ttsPos' = NextPos(script.sections, s, l + 1)
        /\ ttsPc' = "loop"
  /\ UNCHANGED <<inputVars, callVars, alignment, subtitleEntries, jobs, reviewVars, envVars,
                 fsVars, jobVars, totalDuration>>

\* The writeFile of mergeAudioFiles, on masterAudioPath.
MasterWrite == WriteOp(TempPath("master_audio", stamps["tts"]), "RIFF....WAVE")

\* After the loops: masterAudioPath is made from the Date.now() execute reads,
\* mergeAudioFiles is called and awaits fs.mkdir.
MergeAudioFilesCall ==
  /\ ttsPc = "loop"
  /\ ttsPos[1] > Len(script.sections)
  /\ ttsPc' = "merge"
  /\ stamps' = [stamps EXCEPT !["tts"] = clock]
  /\ UNCHANGED <<inputVars, fsCalls, alignment, subtitleEntries, jobs, reviewVars, envVars,
                 fsVars, jobVars, script, totalDuration, ttsPos, audioSegments,
                 currentTime, attempts>>

\* fs.writeFile of mergeAudioFiles has opened the master file.
MergeAudioFilesOpen ==
  /\ ttsPc = "merge"
  /\ ~fsCalls.open
  /\ files' = Opened(files, MasterWrite)
  /\ fsCalls' = [fsCalls EXCEPT !.open = TRUE]
  /\ UNCHANGED <<inputVars, stamps, alignment, subtitleEntries, jobs, reviewVars, envVars,
                 clock, jobVars, script, totalDuration, ttsVars>>

\* mergeAudioFiles settles: the master file is written and execute builds its
\* result, or the call rejects.
TTSMerge(ok) ==
  /\ ttsPc = "merge"
  /\ ttsPc' = IF ok THEN "returned" ELSE "thrown"
  /\ files' \in IF ok THEN {ApplyOp(files, MasterWrite)} ELSE AfterRejected(files, MasterWrite)
  /\ fsCalls' = [fsCalls EXCEPT !.open = FALSE]
  /\ UNCHANGED <<inputVars, stamps, alignment, subtitleEntries, jobs, reviewVars, envVars, clock,
                 jobVars, script, totalDuration, ttsPos, audioSegments, currentTime,
                 attempts>>

TTSNext ==
  \/ TTSValidate
  \/ SynthesizeSpeechCall
  \/ SynthesizeSpeechOpen
  \/ \E ok \in BOOLEAN : SynthesizeSpeechSettle(ok)
  \/ TTSSynthesize
  \/ MergeAudioFilesCall
  \/ MergeAudioFilesOpen
  \/ \E ok \in BOOLEAN : TTSMerge(ok)
  \/ ClockTick

\* ------------------------------------------------ SubtitleGeneratorModule

\* formatSRTTime: hours, minutes, secs and millis, the four numbers of
\* HH:MM:SS,mmm, each the Math.floor of a double.
formatSRTTime(seconds) ==
  <<MathFloor(Divide(seconds, 3600)),
    MathFloor(Divide(Remainder(seconds, 3600), 60)),
    MathFloor(Remainder(seconds, 60)),
    MathFloor(Multiply(Remainder(seconds, 1), 1000))>>

\* The two nested loops of parseSubtitleEntries from the line at pos on: a line
\* without a timestamp is skipped, every other line adds an entry and index++.
RECURSIVE SubtitleLoop(_, _, _, _)
SubtitleLoop(sections, pos, index, entries) ==
  IF pos[1] > Len(sections) THEN entries
  ELSE LET line == sections[pos[1]].lines[pos[2]]
           next == NextPos(sections, pos[1], pos[2] + 1)
       IN IF line.startTime = NoTime \/ line.endTime = NoTime
          THEN SubtitleLoop(sections, next, index, entries)
          ELSE SubtitleLoop(sections, next, index + 1,
                            Append(entries,
                                   [index |-> index,
                                    startTime |-> formatSRTTime(line.startTime),
                                    endTime |-> formatSRTTime(line.endTime),
                                    text |-> line.words]))

\* parseSubtitleEntries: entries = [], index = 1, then the loops.
parseSubtitleEntries(sc) == SubtitleLoop(sc.sections, NextPos(sc.sections, 1, 1), 1, <<>>)

\* generateSRT: two loops of its own push four lines of text for every line
\* that has its timestamps, and lines.join('\n') is returned: the empty string
\* when the loops pushed nothing, a text with an entry in it otherwise.
generateSRT(sc) ==
  IF \E i \in 1..Len(sc.sections) : \E j \in 1..Len(sc.sections[i].lines) :
       sc.sections[i].lines[j].startTime # NoTime /\ sc.sections[i].lines[j].endTime # NoTime
  THEN "srt"
  ELSE Empty

\* ------------------------------------------------ VideoOrchestrator.execute

JobId == "job"

StageIndex(s) == CHOOSE i \in 1..Len(StageOrder) : StageOrder[i] = s

\* Fault: the subtitle stage is left out after speech synthesis.
NextPcMutant(s) ==
  IF s = "tts" THEN "video_composer"
  ELSE IF StageIndex(s) = Len(StageOrder) THEN "package"
  ELSE StageOrder[StageIndex(s) + 1]
\* The statement that follows a stage's success check in execute.
NextPc(s) ==
  IF StageIndex(s) = Len(StageOrder) THEN "package"
  ELSE StageOrder[StageIndex(s) + 1]

\* Fault: a stage call without `await`, execute goes straight on.
AwaitMutant(s) == IF s = "package" THEN s ELSE NextPc(s)
\* `await`: execute stays at the call until the stage's promise settles.
Await(s) == s

\* One line of the error stream: who wrote it, which line, with what text.
ErrorLine(by, line, text) == [by |-> by, line |-> line, text |-> text]

\* The console.error lines of execute's catch block: the failure with the
\* error's message, and for a ModuleError the module and the original error.
ErrorLines(e) ==
  <<ErrorLine("execute", "failed", e.message)>> \o
  (IF e.name = "ModuleError"
   THEN <<ErrorLine("execute", "module", e.moduleType)>> \o
        (IF e.originalError THEN <<ErrorLine("execute", "cause", "original")>> ELSE <<>>)
   ELSE <<>>)

\* Fault: the failure is swallowed and execute stays at the failed call.
CatchRetryMutant(e, fs) ==
  /\ status' = status
  /\ err' = err
  /\ pc' = pc
  /\ files' = fs
  /\ stderr' = stderr
\* Fault: the catch block removes the temporary working area.
CatchCleanMutant(e, fs) ==
  /\ status' = "failed"
  /\ err' = e
  /\ pc' = "thrown"
  /\ files' = {f \in fs : f.path.dir # "outputs/temp"}
  /\ stderr' = stderr \o ErrorLines(e)
\* Fault: a failure of packageOutputs is caught with the status set to
\* COMPLETED, as if the assignment came before the call.
CatchCompletedMutant(e, fs) ==
  /\ status' = IF pc = "package" THEN "completed" ELSE "failed"
  /\ err' = e
  /\ pc' = "thrown"
  /\ files' = fs
  /\ stderr' = stderr \o ErrorLines(e)
\* Fault: the catch block rethrows without setting the status.
CatchMutant(e, fs) ==
  /\ status' = status
  /\ err' = e
  /\ pc' = "thrown"
  /\ files' = fs
  /\ stderr' = stderr \o ErrorLines(e)
\* The catch block of execute, entered with the file system as the try block
\* left it: status FAILED, the lines on the error stream, then the same error
\* rethrown; no file system call.
Catch(e, fs) ==
  /\ status' = "failed"
  /\ err' = e
  /\ pc' = "thrown"
  /\ files' = fs
  /\ stderr' = stderr \o ErrorLines(e)

\* Fault: the package is returned without the status being set.
CompleteMutant(pkg) ==
  /\ status' = status
  /\ returned' = pkg
  /\ pc' = "returned"
\* The end of the try block: status COMPLETED, then `return outputPackage`.
Complete(pkg) ==
  /\ status' = "completed"
  /\ returned' = pkg
  /\ pc' = "returned"

\* Fault: every verdict but `approve` throws.
IsFatalMutant(recommendation) == recommendation # "approve"
\* `if (reviewResult.data.recommendation === 'reject') throw ...`
IsFatal(recommendation) == recommendation = "reject"

\* const qualityCheckEnabled = !args.includes('--no-quality-check')
QualityCheckFromArgs(hasNoQualityCheckFlag) == ~hasNoQualityCheckFlag

\* The constructor: config.qualityCheckEnabled ?? true. An option is the set
\* holding its value, or the empty set when the caller left it out.
ConfigDefault(option) == IF option = {} THEN TRUE ELSE CHOOSE v \in option : TRUE

\* The configurations a caller can construct the orchestrator with: main, with
\* or without the flag, and a library caller that leaves the option out.
Configurations ==
  {ConfigDefault(option) :
     option \in {{}} \cup {{QualityCheckFromArgs(flag)} : flag \in BOOLEAN}}

\* Fault: the review branch is taken whatever the configuration says.
RunsReviewMutant(enabled) == TRUE
\* `if (this.config.qualityCheckEnabled)`: the branch that calls the review.
RunsReview(enabled) == enabled

\* What each module's validate demands of the values execute hands it, as far
\* as the model carries them.
AllLinesTimed(sc) ==
  \A i \in 1..Len(sc.sections) : \A j \in 1..Len(sc.sections[i].lines) :
    /\ sc.sections[i].lines[j].startTime # NoTime
    /\ sc.sections[i].lines[j].endTime # NoTime

\* Fault: the duration test of VideoComposerModule.validate is < 0.
CanSucceedMutant(s) ==
  CASE s = "subtitle_generator" -> AllLinesTimed(script)
    [] s = "video_composer" -> ~LessThan(totalDuration, Number(0))
    [] OTHER -> TRUE
\* Whether the stage's validate lets execute go on: the subtitle stage wants
\* every line timed, the video stage a totalDuration above 0.
CanSucceed(s) ==
  CASE s = "subtitle_generator" -> AllLinesTimed(script)
    [] s = "video_composer" -> LessThan(Number(0), totalDuration)
    [] OTHER -> TRUE

\* packageOutputs: the OutputPackage literal it returns.
packageOutputs(jobId, videoDuration) == [jobId |-> jobId, duration |-> videoDuration]

\* jobContext is built with status IN_PROGRESS; the try block is entered.
ExecuteStart ==
  /\ pc = "start"
  /\ status' = "in_progress"
  /\ pc' = "mkdir"
  /\ UNCHANGED <<inputVars, callVars, alignment, subtitleEntries, jobs, reviewVars, envVars, fsVars, active, calls, succeeded, verdict, script, totalDuration,
                 outputPackage, returned, err, ttsVars>>

\* The two fs.mkdir calls for the job directory and its temp directory.
MakeOutputDir(ok) ==
  /\ pc = "mkdir"
  /\ IF ok
     THEN /\ pc' = StageOrder[1]
          /\ UNCHANGED <<status, err, files, stderr>>
     ELSE Catch(FsError, files)
  /\ UNCHANGED <<inputVars, callVars, alignment, subtitleEntries, jobs, reviewVars,
                 cancelRequested, exitCode, clock, active, calls, succeeded, verdict, script,
                 totalDuration, outputPackage, returned, ttsVars>>

\* execute calls this.<module>.execute(...) and awaits it.
Invoke(s) ==
  /\ pc = s
  /\ s \notin active
  /\ s = "quality_review" => RunsReview(qualityCheckEnabled)
  /\ active' = active \cup {s}
  /\ calls' = Append(calls, s)
  /\ pc' = Await(s)
  /\ ttsPc' = IF s = "tts" THEN "validate" ELSE ttsPc
  /\ fsCalls' = NoCalls
  /\ UNCHANGED <<inputVars, stamps, alignment, subtitleEntries, jobs, reviewVars, envVars,
                 fsVars, status, succeeded, verdict, script, totalDuration, outputPackage,
                 returned, err, ttsPos, audioSegments, currentTime, attempts>>

\* The else branch of `if (this.config.qualityCheckEnabled)`.
SkipReview ==
  /\ pc = "quality_review"
  /\ ~RunsReview(qualityCheckEnabled)
  /\ pc' = NextPc("quality_review")
  /\ UNCHANGED <<inputVars, callVars, alignment, subtitleEntries, jobs, reviewVars, envVars, fsVars, status, active, calls, succeeded, verdict, script,
                 totalDuration, outputPackage, returned, err, ttsVars>>

GenericStages == Stages \ {"quality_review", "tts"}
\* How an awaited module call can settle under the ModuleResult interface.
Outcomes == {"ok", "throws", "unsuccessful"}

\* The calls of stage s, on the paths named after the Date.now() it read.
StageCalls(s) == StageOps(s, stamps[s], generateSRT(script))

\* A stage other than the review and TTS, past its validate, makes the path
\* of its file from the Date.now() it reads; fs.mkdir is awaited next.
StageNames(s) ==
  /\ pc = s
  /\ s \in active
  /\ CanSucceed(s)
  /\ StageCalls(s) # <<>>
  /\ stamps[s] = Undefined
  /\ stamps' = [stamps EXCEPT ![s] = clock]
  /\ UNCHANGED <<inputVars, fsCalls, alignment, subtitleEntries, jobs, reviewVars, envVars,
                 fsVars, jobVars, ttsVars, script, totalDuration>>

\* The stage's next file system call has opened its target.
StageOpen(s) ==
  /\ pc = s
  /\ s \in active
  /\ CanSucceed(s)
  /\ stamps[s] # Undefined
  /\ ~fsCalls.rejected
  /\ ~fsCalls.open
  /\ fsCalls.done < Len(StageCalls(s))
  /\ files' = Opened(files, StageCalls(s)[fsCalls.done + 1])
  /\ fsCalls' = [fsCalls EXCEPT !.open = TRUE]
  /\ UNCHANGED <<inputVars, stamps, alignment, subtitleEntries, jobs, reviewVars, envVars,
                 clock, jobVars, ttsVars, script, totalDuration>>

\* The stage's awaited file system call settles: the call goes through, or it
\* rejects and leaves what a rejected call leaves.
StageCall(s, ok) ==
  /\ pc = s
  /\ s \in active
  /\ CanSucceed(s)
  /\ stamps[s] # Undefined
  /\ ~fsCalls.rejected
  /\ fsCalls.done < Len(StageCalls(s))
  /\ LET op == StageCalls(s)[fsCalls.done + 1]
     IN IF ok
        THEN /\ files' = ApplyOp(files, op)
             /\ fsCalls' = [fsCalls EXCEPT !.done = @ + 1, !.open = FALSE]
        ELSE /\ files' \in AfterRejected(files, op)
             /\ fsCalls' = [fsCalls EXCEPT !.rejected = TRUE, !.open = FALSE]
  /\ UNCHANGED <<inputVars, stamps, alignment, subtitleEntries, jobs, reviewVars, envVars,
                 clock, jobVars, ttsVars, script, totalDuration>>

\* A stage other than the review and TTS settles: with a successful result
\* after all its file system calls, with a result lacking success or data, or
\* by throwing its ModuleError: from validate, after a rejected call, or
\* after the calls.
StageReturn(s, outcome) ==
  /\ pc = s
  /\ s \in active
  /\ active' = active \ {s}
  /\ CASE outcome = "ok" ->
            /\ CanSucceed(s)
            /\ ~fsCalls.rejected
            /\ fsCalls.done = Len(StageCalls(s))
            /\ succeeded' = succeeded \cup {s}
            /\ pc' = NextPc(s)
            /\ script' = IF s = "script_generator"
                         THEN generateScript(sentences, plan)
                         ELSE script
            /\ UNCHANGED <<status, err, files, stderr>>
       [] outcome = "throws" ->
            /\ ~CanSucceed(s) \/ fsCalls.rejected \/ fsCalls.done = Len(StageCalls(s))
            /\ Catch(ModuleError(s), files)
            /\ UNCHANGED <<succeeded, script>>
       [] OTHER ->
            /\ CanSucceed(s)
            /\ ~fsCalls.rejected
            /\ fsCalls.done = Len(StageCalls(s))
            /\ Catch(StageFailedError(s), files)
            /\ UNCHANGED <<succeeded, script>>
  /\ subtitleEntries' = IF outcome = "ok" /\ s = "subtitle_generator"
                        THEN parseSubtitleEntries(script)
                        ELSE subtitleEntries
  /\ UNCHANGED <<inputVars, callVars, alignment, jobs, reviewVars, cancelRequested, exitCode,
                 clock, calls, verdict, totalDuration, outputPackage, returned, ttsVars>>

\* The review settles; on a successful result the recommendation decides.
ReviewSettles(outcome, issues) ==
  /\ pc = "quality_review"
  /\ "quality_review" \in active
  /\ active' = active \ {"quality_review"}
  /\ CASE outcome = "ok" ->
            LET score == calculateQualityScore(issues)
                recommendation == Recommendation(score)
            IN /\ succeeded' = succeeded \cup {"quality_review"}
               /\ verdict' = recommendation
               /\ IF IsFatal(recommendation)
                  THEN Catch(QualityRejectedError, files)
                  ELSE /\ pc' = NextPc("quality_review")
                       /\ UNCHANGED <<status, err, files, stderr>>
       [] outcome = "throws" ->
            /\ Catch(ModuleError("quality_review"), files)
            /\ UNCHANGED <<succeeded, verdict>>
       [] OTHER ->
            /\ Catch(StageFailedError("quality_review"), files)
            /\ UNCHANGED <<succeeded, verdict>>
  /\ UNCHANGED <<inputVars, callVars, alignment, subtitleEntries, jobs, cancelRequested,
                 exitCode, clock, calls, script, totalDuration, outputPackage, returned,
                 ttsVars>>

\* execute against the module's interface: the awaited review settles with
\* some list of issues.
QualityReview(outcome) ==
  /\ pc = "quality_review"
  /\ \E issues \in IssueLists : ReviewSettles(outcome, issues)
  /\ UNCHANGED reviewVars

\* checkFactualAccuracy from the two counts of its loop: matchRate > 0.5, and
\* a matchRate of 0 when the original has no word longer than 3 characters.
checkFactualAccuracy(matchCount, totalImportantWords) ==
  IF totalImportantWords > 0 THEN 2 * matchCount > totalImportantWords ELSE FALSE

\* Fault: the issue is pushed with severity critical.
reviewScriptMutant(isFactuallyAccurate) ==
  IF isFactuallyAccurate THEN <<>> ELSE <<"critical">>
\* reviewScript: the issues it collects, one of severity high when the factual
\* check fails.
reviewScript(isFactuallyAccurate) ==
  IF isFactuallyAccurate THEN <<>> ELSE <<"high">>

\* execute with QualityReviewModule as implemented: the issues are those of
\* reviewScript, kept with their score.
ReviewScriptReturn(outcome, matchCount, totalImportantWords) ==
  LET issues == reviewScript(checkFactualAccuracy(matchCount, totalImportantWords))
  IN /\ ReviewSettles(outcome, issues)
     /\ issueList' = IF outcome = "ok" THEN issues ELSE issueList
     /\ qualityScore' = IF outcome = "ok" THEN calculateQualityScore(issues)
                        ELSE qualityScore

\* The caller asks for the job to be cancelled while TTS is part-way through
\* the lines. execute takes no cancellation signal and reads no such request.
RequestCancel ==
  /\ "tts" \in active
  /\ ttsPc = "loop"
  /\ audioSegments # <<>>
  /\ ttsPos[1] <= Len(script.sections)
  /\ ~cancelRequested
  /\ cancelRequested' = TRUE
  /\ UNCHANGED <<inputVars, callVars, alignment, subtitleEntries, jobs, reviewVars, fsVars, exitCode, stderr, jobVars, script, totalDuration,
                 ttsVars>>

\* this.tts.execute settles: its result, or the ModuleError of its catch block.
TTSReturn ==
  /\ pc = "tts"
  /\ "tts" \in active
  /\ ttsPc \in {"returned", "thrown"}
  /\ active' = active \ {"tts"}
  /\ IF ttsPc = "returned"
     THEN /\ succeeded' = succeeded \cup {"tts"}
          /\ totalDuration' = currentTime
          /\ pc' = NextPc("tts")
          /\ UNCHANGED <<status, err, files, stderr>>
     ELSE /\ Catch(ModuleError("tts"), files)
          /\ UNCHANGED <<succeeded, totalDuration>>
  /\ UNCHANGED <<inputVars, callVars, alignment, subtitleEntries, jobs, reviewVars,
                 cancelRequested, exitCode, clock, calls, verdict, script, outputPackage,
                 returned, ttsVars>>

\* execute calls this.packageOutputs(...) and awaits it.
PackageInvoke ==
  /\ pc = "package"
  /\ "package" \notin active
  /\ active' = active \cup {"package"}
  /\ calls' = Append(calls, "package")
  /\ fsCalls' = NoCalls
  /\ UNCHANGED <<inputVars, stamps, alignment, subtitleEntries, jobs, reviewVars, envVars,
                 fsVars, pc, status, succeeded, verdict, script, totalDuration,
                 outputPackage, returned, err, ttsVars>>

\* The next copy or write of packageOutputs has opened its target.
PackageOpen ==
  /\ pc = "package"
  /\ "package" \in active
  /\ ~fsCalls.rejected
  /\ ~fsCalls.open
  /\ fsCalls.done < Len(PackageOps)
  /\ files' = Opened(files, PackageOps[fsCalls.done + 1])
  /\ fsCalls' = [fsCalls EXCEPT !.open = TRUE]
  /\ UNCHANGED <<inputVars, stamps, alignment, subtitleEntries, jobs, reviewVars, envVars,
                 clock, jobVars, ttsVars, script, totalDuration>>

\* The awaited copy or write of packageOutputs settles: it goes through, or
\* it rejects and leaves what a rejected call leaves.
PackageCall(ok) ==
  /\ pc = "package"
  /\ "package" \in active
  /\ ~fsCalls.rejected
  /\ fsCalls.done < Len(PackageOps)
  /\ LET op == PackageOps[fsCalls.done + 1]
     IN IF ok
        THEN /\ files' = ApplyOp(files, op)
             /\ fsCalls' = [fsCalls EXCEPT !.done = @ + 1, !.open = FALSE]
        ELSE /\ files' \in AfterRejected(files, op)
             /\ fsCalls' = [fsCalls EXCEPT !.rejected = TRUE, !.open = FALSE]
  /\ UNCHANGED <<inputVars, stamps, alignment, subtitleEntries, jobs, reviewVars, envVars,
                 clock, jobVars, ttsVars, script, totalDuration>>

\* packageOutputs settles: all its copies and writes went through, then status
\* COMPLETED and the return; or one of them rejected and execute's catch block
\* is entered.
PackageReturn(ok) ==
  /\ pc = "package"
  /\ "package" \in active
  /\ active' = active \ {"package"}
  /\ IF ok
     THEN /\ ~fsCalls.rejected
          /\ fsCalls.done = Len(PackageOps)
          /\ outputPackage' = packageOutputs(JobId, totalDuration)
          /\ succeeded' = succeeded \cup {"package"}
          /\ Complete(outputPackage')
          /\ UNCHANGED <<err, files, stderr>>
     ELSE /\ fsCalls.rejected
          /\ Catch(FsError, files)
          /\ UNCHANGED <<outputPackage, succeeded, returned>>
  /\ UNCHANGED <<inputVars, callVars, alignment, subtitleEntries, jobs, reviewVars,
                 cancelRequested, exitCode, clock, calls, verdict, script, totalDuration,
                 ttsVars>>

\* ------------------------------------------------------------------- main

\* Fault: the catch block of main exits with 0.
ExitCodeMutant(failed) == 0
\* process.exit(1) in the catch block of main; a main that returns lets the
\* process end with 0.
ExitCode(failed) == IF failed THEN 1 ELSE 0

\* No arguments: the usage text goes to the output stream and process.exit(0)
\* ends the process before an orchestrator exists.
MainUsage ==
  /\ pc = "start"
  /\ sentences = <<>>
  /\ exitCode = Undefined
  /\ exitCode' = ExitCode(FALSE)
  /\ pc' = "exited"
  /\ UNCHANGED <<inputVars, callVars, alignment, subtitleEntries, jobs, reviewVars, fsVars, cancelRequested, stderr, status, active, calls,
                 succeeded, verdict, script, totalDuration, outputPackage, returned, err, ttsVars>>

\* execute returned: the two console.log lines, main returns and the process
\* ends.
MainReturn ==
  /\ pc = "returned"
  /\ exitCode = Undefined
  /\ exitCode' = ExitCode(FALSE)
  /\ UNCHANGED <<inputVars, callVars, alignment, subtitleEntries, jobs, reviewVars, fsVars, cancelRequested, stderr, jobVars, script,
                 totalDuration, ttsVars>>

\* execute threw: console.error with the error's message.
MainReport ==
  /\ pc = "thrown"
  /\ exitCode = Undefined
  /\ \A i \in 1..Len(stderr) : stderr[i].by # "main"
  /\ stderr' = Append(stderr, ErrorLine("main", "error", err.message))
  /\ UNCHANGED <<inputVars, callVars, alignment, subtitleEntries, jobs, reviewVars, fsVars,
                 cancelRequested, exitCode, jobVars, script, totalDuration, ttsVars>>

\* logger.error, then process.exit(1).
MainExit ==
  /\ pc = "thrown"
  /\ exitCode = Undefined
  /\ \E i \in 1..Len(stderr) : stderr[i].by = "main"
  /\ exitCode' = ExitCode(TRUE)
  /\ UNCHANGED <<inputVars, callVars, alignment, subtitleEntries, jobs, reviewVars, fsVars,
                 cancelRequested, stderr, jobVars, script, totalDuration, ttsVars>>

Init ==
  /\ sentences \in SeqUpTo(1..MaxSentenceWords, MaxSentences)
  /\ qualityCheckEnabled \in Configurations
  /\ pc = "start"
  /\ status = "none"
  /\ active = {}
  /\ calls = <<>>
  /\ succeeded = {}
  /\ verdict = "none"
  /\ script = NoScript
  /\ totalDuration = NoTime
  /\ outputPackage = NoPackage
  /\ returned = NoPackage
  /\ err = NoError
  /\ ttsPc = "idle"
  /\ ttsPos = <<1, 1>>
  /\ audioSegments = <<>>
  /\ attempts = 0
  /\ currentTime = Number(0)
  /\ files = {}
  /\ clock = 0
  /\ cancelRequested = FALSE
  /\ fsCalls = NoCalls
  /\ stamps = NoStamps
  /\ alignment = NoAlignment
  /\ plan = PlanStructure
  /\ subtitleEntries = <<>>
  /\ jobs = NoJobs
  /\ exitCode = Undefined
  /\ stderr = <<>>
  /\ issueList = <<>>
  /\ qualityScore = Undefined

Next ==
  \/ ExecuteStart
  \/ \E ok \in BOOLEAN : MakeOutputDir(ok)
  \/ \E s \in Stages : Invoke(s)
  \/ SkipReview
  \/ \E s \in GenericStages : StageNames(s)
  \/ \E s \in GenericStages : StageOpen(s)
  \/ \E s \in GenericStages, ok \in BOOLEAN : StageCall(s, ok)
  \/ \E s \in GenericStages, outcome \in Outcomes : StageReturn(s, outcome)
  \/ \E outcome \in Outcomes : QualityReview(outcome)
  \/ TTSValidate
  \/ SynthesizeSpeechCall
  \/ SynthesizeSpeechOpen
  \/ \E ok \in BOOLEAN : SynthesizeSpeechSettle(ok)
  \/ TTSSynthesize
  \/ MergeAudioFilesCall
  \/ MergeAudioFilesOpen
  \/ \E ok \in BOOLEAN : TTSMerge(ok)
  \/ RequestCancel
  \/ TTSReturn
  \/ PackageInvoke
  \/ PackageOpen
  \/ \E ok \in BOOLEAN : PackageCall(ok)
  \/ \E ok \in BOOLEAN : PackageReturn(ok)
  \/ ClockTick
  \/ MainUsage
  \/ MainReturn
  \/ MainReport
  \/ MainExit

Spec == Init /\ [][Next]_vars

\* execute with the implemented review in place of an arbitrary one.
NextReview ==
  \/ ExecuteStart
  \/ \E ok \in BOOLEAN : MakeOutputDir(ok)
  \/ \E s \in Stages : Invoke(s)
  \/ SkipReview
  \/ \E s \in GenericStages : StageNames(s)
  \/ \E s \in GenericStages : StageOpen(s)
  \/ \E s \in GenericStages, ok \in BOOLEAN : StageCall(s, ok)
  \/ \E s \in GenericStages, outcome \in Outcomes : StageReturn(s, outcome)
  \/ \E outcome \in {"ok", "throws"}, totalImportantWords \in 0..MaxImportantWords :
       \E matchCount \in 0..totalImportantWords :
         ReviewScriptReturn(outcome, matchCount, totalImportantWords)
  \/ TTSValidate
  \/ SynthesizeSpeechCall
  \/ SynthesizeSpeechOpen
  \/ \E ok \in BOOLEAN : SynthesizeSpeechSettle(ok)
  \/ TTSSynthesize
  \/ MergeAudioFilesCall
  \/ MergeAudioFilesOpen
  \/ \E ok \in BOOLEAN : TTSMerge(ok)
  \/ RequestCancel
  \/ TTSReturn
  \/ PackageInvoke
  \/ PackageOpen
  \/ \E ok \in BOOLEAN : PackageCall(ok)
  \/ \E ok \in BOOLEAN : PackageReturn(ok)
  \/ ClockTick
  \/ MainUsage
  \/ MainReturn
  \/ MainReport
  \/ MainExit

SpecReview == Init /\ [][NextReview]_vars

\* ------------------------------------- TTSModule.execute on any script

\* The number of lines of a script of that shape.
RECURSIVE LineCount(_)
LineCount(shape) ==
  IF shape = <<>> THEN 0 ELSE Len(Head(shape)) + LineCount(Tail(shape))

\* A script of any shape: shape[i][j] is the word count of line j of section i.
ArbitraryScripts ==
  {[sections |-> [i \in 1..Len(shape) |-> ScriptSection(i, "main_content", shape[i])]] :
     shape \in {sh \in SeqUpTo(SeqUpTo(1..MaxWords, MaxLines), MaxSections) :
                  LineCount(sh) <= MaxScriptLines}}

\* TTSModule.execute called with any TTSInput, outside a job.
InitTTS ==
  /\ script \in ArbitraryScripts
  /\ ttsPc = "validate"
  /\ sentences = <<>>
  /\ qualityCheckEnabled = TRUE
  /\ pc = "start"
  /\ status = "none"
  /\ active = {}
  /\ calls = <<>>
  /\ succeeded = {}
  /\ verdict = "none"
  /\ totalDuration = NoTime
  /\ outputPackage = NoPackage
  /\ returned = NoPackage
  /\ err = NoError
  /\ ttsPos = <<1, 1>>
  /\ audioSegments = <<>>
  /\ attempts = 0
  /\ currentTime = Number(0)
  /\ files = {}
  /\ clock = 0
  /\ cancelRequested = FALSE
  /\ fsCalls = NoCalls
  /\ stamps = NoStamps
  /\ alignment = NoAlignment
  /\ plan = PlanStructure
  /\ subtitleEntries = <<>>
  /\ jobs = NoJobs
  /\ exitCode = Undefined
  /\ stderr = <<>>
  /\ issueList = <<>>
  /\ qualityScore = Undefined

SpecTTS == InitTTS /\ [][TTSNext]_vars

\* ----------------------------------- calculateQualityScore on any issue list

\* issues with q put in at position k (1 = front, Len + 1 = back).
InsertAt(list, k, q) == SubSeq(list, 1, k - 1) \o <<q>> \o SubSeq(list, k, Len(list))

\* const score = this.calculateQualityScore(issues), then the recommendation
\* from the score.
ScoreIssues ==
  /\ qualityScore = Undefined
  /\ qualityScore' = calculateQualityScore(issueList)
  /\ verdict' = Recommendation(qualityScore')
  /\ UNCHANGED <<inputVars, callVars, alignment, subtitleEntries, jobs, envVars, fsVars, runVars, ttsVars, script, totalDuration, issueList>>

\* One more issue is found and the list is scored again.
AddIssue(q, k) ==
  /\ qualityScore # Undefined
  /\ Len(issueList) <= MaxIssues
  /\ k <= Len(issueList) + 1
  /\ issueList' = InsertAt(issueList, k, q)
  /\ qualityScore' = calculateQualityScore(issueList')
  /\ verdict' = Recommendation(qualityScore')
  /\ UNCHANGED <<inputVars, callVars, alignment, subtitleEntries, jobs, envVars, fsVars, runVars, ttsVars, script, totalDuration>>

InitScore ==
  /\ issueList \in IssueLists
  /\ qualityScore = Undefined
  /\ script = NoScript
  /\ ttsPc = "idle"
  /\ sentences = <<>>
  /\ qualityCheckEnabled = TRUE
  /\ pc = "start"
  /\ status = "none"
  /\ active = {}
  /\ calls = <<>>
  /\ succeeded = {}
  /\ verdict = "none"
  /\ totalDuration = NoTime
  /\ outputPackage = NoPackage
  /\ returned = NoPackage
  /\ err = NoError
  /\ ttsPos = <<1, 1>>
  /\ audioSegments = <<>>
  /\ attempts = 0
  /\ currentTime = Number(0)
  /\ files = {}
  /\ clock = 0
  /\ cancelRequested = FALSE
  /\ fsCalls = NoCalls
  /\ stamps = NoStamps
  /\ alignment = NoAlignment
  /\ plan = PlanStructure
  /\ subtitleEntries = <<>>
  /\ jobs = NoJobs
  /\ exitCode = Undefined
  /\ stderr = <<>>

NextScore ==
  \/ ScoreIssues
  \/ \E q \in Severity, k \in 1..(MaxIssues + 1) : AddIssue(q, k)

SpecScore == InitScore /\ [][NextScore]_vars

\* ------------------------------------ generateScript on any text and plan

\* The section types a plan is made of here.
SectionTypes == {"hook", "main_content"}

\* The plans of one to MaxPlan sections.
Plans == {p \in SeqUpTo(SectionTypes, MaxPlan) : Len(p) >= 1}

\* this.generateScript(input) on the sentences of the text and the plan.
GenerateScript ==
  /\ script = NoScript
  /\ script' = generateScript(sentences, plan)
  /\ UNCHANGED <<inputVars, callVars, alignment, subtitleEntries, jobs, reviewVars, envVars, fsVars,
                 jobVars, ttsVars, totalDuration>>

InitScript ==
  /\ sentences \in SeqUpTo(1..MaxTextWords, MaxTextSentences)
  /\ plan \in Plans
  /\ script = NoScript
  /\ issueList = <<>>
  /\ qualityScore = Undefined
  /\ ttsPc = "idle"
  /\ qualityCheckEnabled = TRUE
  /\ pc = "start"
  /\ status = "none"
  /\ active = {}
  /\ calls = <<>>
  /\ succeeded = {}
  /\ verdict = "none"
  /\ totalDuration = NoTime
  /\ outputPackage = NoPackage
  /\ returned = NoPackage
  /\ err = NoError
  /\ ttsPos = <<1, 1>>
  /\ audioSegments = <<>>
  /\ attempts = 0
  /\ currentTime = Number(0)
  /\ files = {}
  /\ clock = 0
  /\ cancelRequested = FALSE
  /\ fsCalls = NoCalls
  /\ stamps = NoStamps
  /\ alignment = NoAlignment
  /\ subtitleEntries = <<>>
  /\ jobs = NoJobs
  /\ exitCode = Undefined
  /\ stderr = <<>>

NextScript == GenerateScript

SpecScript == InitScript /\ [][NextScript]_vars

\* ------------------------------- ThumbnailGeneratorModule.applyTemplate

\* Output paths a caller of applyTemplate may name: a thumbnail of the working
\* area, the thumbnail of a job directory, a file of its own.
TemplateOutputs ==
  {TempPath("thumbnail", 0), FinalPath("thumbnail_base.png"),
   [dir |-> "thumbnails", name |-> "custom.png", stamp |-> 0]}

\* applyTemplate(templatePath, text, outputPath) in progress: fs.writeFile has
\* opened outputPath.
ApplyTemplateOpen(outputPath) ==
  /\ files' = Opened(files, WriteOp(outputPath, "...PNG..."))
  /\ UNCHANGED <<inputVars, callVars, alignment, subtitleEntries, jobs, reviewVars, envVars,
                 clock, jobVars, ttsVars, script, totalDuration>>

\* applyTemplate(templatePath, text, outputPath): mkdir of the directory, then
\* the image written to outputPath, or the write rejected. execute never calls
\* it; a caller of the module does.
ApplyTemplate(outputPath, ok) ==
  /\ LET op == WriteOp(outputPath, "...PNG...")
     IN files' \in IF ok THEN {ApplyOp(files, op)} ELSE AfterRejected(files, op)
  /\ UNCHANGED <<inputVars, callVars, alignment, subtitleEntries, jobs, reviewVars, envVars,
                 clock, jobVars, ttsVars, script, totalDuration>>

InitThumbnail ==
  /\ files \in SUBSET {[path |-> p, content |-> "...PNG..."] : p \in TemplateOutputs}
  /\ clock = 0
  /\ sentences = <<>>
  /\ qualityCheckEnabled = TRUE
  /\ plan = PlanStructure
  /\ issueList = <<>>
  /\ qualityScore = Undefined
  /\ script = NoScript
  /\ ttsPc = "idle"
  /\ pc = "start"
  /\ status = "none"
  /\ active = {}
  /\ calls = <<>>
  /\ succeeded = {}
  /\ verdict = "none"
  /\ totalDuration = NoTime
  /\ outputPackage = NoPackage
  /\ returned = NoPackage
  /\ err = NoError
  /\ ttsPos = <<1, 1>>
  /\ audioSegments = <<>>
  /\ attempts = 0
  /\ currentTime = Number(0)
  /\ cancelRequested = FALSE
  /\ fsCalls = NoCalls
  /\ stamps = NoStamps
  /\ alignment = NoAlignment
  /\ subtitleEntries = <<>>
  /\ jobs = NoJobs
  /\ exitCode = Undefined
  /\ stderr = <<>>

NextThumbnail ==
  \/ \E outputPath \in TemplateOutputs : ApplyTemplateOpen(outputPath)
  \/ \E outputPath \in TemplateOutputs, ok \in BOOLEAN : ApplyTemplate(outputPath, ok)

SpecThumbnail == InitThumbnail /\ [][NextThumbnail]_vars

\* ------------------------------------- two execute calls in one process

\* The uuids of two execute calls made in one process, one not awaited before
\* the other starts.
Jobs == {"job-a", "job-b"}

\* The modules that write files, in the order execute calls them.
FileStages == <<"tts", "subtitle_generator", "video_composer", "thumbnail_generator">>

\* The calls of stage s of a job whose script is one line of one word, at
\* holding the Date.now() values it read. Those of TTSModule.execute: the
\* segment, named after the Date.now() synthesizeSpeech read, then the master
\* file, named after the Date.now() execute read for it. The subtitle module
\* writes the text of the line as TTSModule.execute has timed it.
JobStageOps(s, at) ==
  IF s = "tts"
  THEN <<WriteOp(synthesizeSpeech(1, at["audio"]).path, "RIFF....WAVE"),
         WriteOp(TempPath("master_audio", at["tts"]), "RIFF....WAVE")>>
  ELSE LET line == StampLine(ScriptLine(1, 1, 1), Number(0),
                             Add(Number(0), synthesizeSpeech(1, at["audio"]).duration))
           timed == [sections |->
                       <<[ScriptSection(1, "main_content", <<1>>) EXCEPT !.lines = <<line>>]>>]
       IN StageOps(s, at[s], generateSRT(timed))

\* The calls ops as made by job j: what they write is j's data.
Owned(j, ops) == [i \in 1..Len(ops) |-> [ops[i] EXCEPT !.content = <<j, @>>]]

\* The name the Date.now() job j reads before its next call goes into:
\* TTSModule reads one for the segment and one for the master file, the other
\* modules one before their first call ("none": the call uses a path made
\* before).
JobReads(j) ==
  IF jobs[j].done < Len(FileStages)
  THEN LET s == FileStages[jobs[j].done + 1]
           n == jobs[j].made
       IN IF s = "tts" THEN (IF n = 0 THEN "audio" ELSE "tts")
          ELSE IF n = 0 THEN s ELSE "none"
  ELSE "none"

\* Job j has made the path its next call writes to.
JobNamed(j) == IF JobReads(j) = "none" THEN TRUE ELSE jobs[j].at[JobReads(j)] # Undefined

\* The calls of the stage job j is in, or of its packageOutputs.
JobOps(j) ==
  IF jobs[j].done < Len(FileStages)
  THEN Owned(j, JobStageOps(FileStages[jobs[j].done + 1], jobs[j].at))
  ELSE Owned(j, PackageOpsIn(j, jobs[j].at))

\* A call of job j goes through. A copy puts in its target what its source
\* holds at that time; from a source another call has open it takes nothing
\* and leaves the target as the copy opened it.
JobApplyOp(j, fs, op) ==
  IF op.kind = "copy"
  THEN LET data == ContentOf(fs, op.from)
       IN writeFile(fs, op.path, IF data[2] = Empty THEN <<j, Empty>> ELSE data)
  ELSE writeFile(fs, op.path, op.content)

\* Job j makes the path of its next file from the Date.now() it reads, then
\* awaits fs.mkdir.
JobNames(j) ==
  /\ ~JobNamed(j)
  /\ jobs' = [jobs EXCEPT ![j].at[JobReads(j)] = clock]
  /\ UNCHANGED <<inputVars, callVars, alignment, subtitleEntries, reviewVars, envVars,
                 fsVars, jobVars, ttsVars, script, totalDuration>>

\* The file system call job j awaits has opened its target.
JobOpen(j) ==
  /\ ~jobs[j].packaged
  /\ JobNamed(j)
  /\ ~jobs[j].open
  /\ LET op == JobOps(j)[jobs[j].made + 1]
     IN /\ files' = writeFile(files, op.path, <<j, Empty>>)
        /\ jobs' = [jobs EXCEPT ![j].open = TRUE]
  /\ UNCHANGED <<inputVars, callVars, alignment, subtitleEntries, reviewVars, envVars, clock,
                 jobVars, ttsVars, script, totalDuration>>

\* The file system call job j awaits in the file-writing stage it is in goes
\* through; the stage returns the paths after its last call.
JobStage(j) ==
  /\ jobs[j].done < Len(FileStages)
  /\ JobNamed(j)
  /\ LET ops == JobOps(j)
         op == ops[jobs[j].made + 1]
         last == jobs[j].made + 1 = Len(ops)
     IN /\ files' = JobApplyOp(j, files, op)
        /\ jobs' = [jobs EXCEPT ![j].open = FALSE,
                                ![j].made = IF last THEN 0 ELSE @ + 1,
                                ![j].done = IF last THEN @ + 1 ELSE @]
  /\ UNCHANGED <<inputVars, callVars, alignment, subtitleEntries, reviewVars, envVars, clock,
                 jobVars, ttsVars, script, totalDuration>>

\* The copy or write of packageOutputs job j awaits, made on the paths its
\* stages returned, goes through.
JobPackage(j) ==
  /\ jobs[j].done = Len(FileStages)
  /\ ~jobs[j].packaged
  /\ LET ops == JobOps(j)
         op == ops[jobs[j].made + 1]
         last == jobs[j].made + 1 = Len(ops)
     IN /\ files' = JobApplyOp(j, files, op)
        /\ jobs' = [jobs EXCEPT ![j].open = FALSE,
                                ![j].made = IF last THEN 0 ELSE @ + 1,
                                ![j].packaged = last]
  /\ UNCHANGED <<inputVars, callVars, alignment, subtitleEntries, reviewVars, envVars, clock,
                 jobVars, ttsVars, script, totalDuration>>

\* Every call of execute before its first file-writing stage: done counts the
\* stages finished, made the calls made in the stage it is in, open says that
\* the call being awaited has opened its target, at holds the Date.now()
\* values read.
InitJobs ==
  /\ jobs = [j \in Jobs |->
               [done |-> 0, made |-> 0, open |-> FALSE, packaged |-> FALSE,
                at |-> [s \in {FileStages[i] : i \in 1..Len(FileStages)} \cup {"audio"}
                          |-> Undefined]]]
  /\ files = {}
  /\ clock = 0
  /\ issueList = <<>>
  /\ qualityScore = Undefined
  /\ script = NoScript
  /\ ttsPc = "idle"
  /\ sentences = <<>>
  /\ qualityCheckEnabled = TRUE
  /\ pc = "start"
  /\ status = "none"
  /\ active = {}
  /\ calls = <<>>
  /\ succeeded = {}
  /\ verdict = "none"
  /\ totalDuration = NoTime
  /\ outputPackage = NoPackage
  /\ returned = NoPackage
  /\ err = NoError
  /\ ttsPos = <<1, 1>>
  /\ audioSegments = <<>>
  /\ attempts = 0
  /\ currentTime = Number(0)
  /\ cancelRequested = FALSE
  /\ fsCalls = NoCalls
  /\ stamps = NoStamps
  /\ alignment = NoAlignment
  /\ plan = PlanStructure
  /\ subtitleEntries = <<>>
  /\ exitCode = Undefined
  /\ stderr = <<>>

NextJobs ==
  \/ \E j \in Jobs : JobNames(j)
  \/ \E j \in Jobs : JobOpen(j)
  \/ \E j \in Jobs : JobStage(j)
  \/ \E j \in Jobs : JobPackage(j)
  \/ ClockTick

SpecJobs == InitJobs /\ [][NextJobs]_vars

\* ------------------------------------ AlignmentEngine: keyword-to-cue resolution

MaxAlignWords == 2
MaxResolutions == 2

Slides == {1, 2}
Tokens == {"plasma", "ion"}

\* The output frame the boxes are clamped to.
Frame == [width |-> 4, height |-> 4]

Box(x, y, w, h) == [x |-> x, y |-> y, width |-> w, height |-> h]

\* A SlideElement: slide index, the tokens of its text, bounding box.
SlideElement(slide, text, box) == [slide |-> slide, text |-> text, box |-> box]

\* The elements a document parser may hand over: a title and a body on slide 1,
\* a text box on slide 2 that reaches over the frame's right edge.
ElementUniverse ==
  {SlideElement(1, {"plasma", "ion"}, Box(0, 0, 4, 1)),
   SlideElement(1, {"plasma"}, Box(1, 2, 2, 1)),
   SlideElement(2, {"ion"}, Box(3, 1, 2, 1))}

\* The utterances of a slide: at least one word, at most MaxAlignWords.
Utterances == {u \in SeqUpTo(Tokens, MaxAlignWords) : Len(u) >= 1}

\* WordTimestamp i of an utterance, relative to the utterance segment.
WordStart(i) == (i - 1) * MsPerWord
WordEnd(i) == i * MsPerWord

\* The slide's cumulative start offset in the master timeline.
SegmentStart(words, slide) ==
  IF slide = 1 THEN 0 ELSE Len(words[1]) * MsPerWord

\* Spatial resolution: the elements of the slide whose text has the keyword as
\* a token.
MatchingElements(elements, slide, keyword) ==
  {e \in elements : e.slide = slide /\ keyword \in e.text}

Area(box) == box.width * box.height

\* e comes before f: smaller area, then topmost, then leftmost.
Preferred(e, f) ==
  \/ Area(e.box) < Area(f.box)
  \/ Area(e.box) = Area(f.box) /\ e.box.y < f.box.y
  \/ Area(e.box) = Area(f.box) /\ e.box.y = f.box.y /\ e.box.x < f.box.x

\* Fault: with no matching element the first element of the slide is taken.
SpatialResolveMutant(elements, slide, keyword) ==
  LET matching == MatchingElements(elements, slide, keyword)
      pool == IF matching = {} THEN {e \in elements : e.slide = slide} ELSE matching
  IN {e \in pool : \A f \in pool : ~Preferred(f, e)}
\* The element a keyword resolves to: the preferred one among the matching
\* elements (the empty set when none matches).
SpatialResolve(elements, slide, keyword) ==
  LET matching == MatchingElements(elements, slide, keyword)
  IN {e \in matching : \A f \in matching : ~Preferred(f, e)}

\* Fault: the scan starts at the first word whatever the cursor is.
NextOccurrenceMutant(utterance, cursor, keyword) ==
  LET later == {i \in 1..Len(utterance) : utterance[i] = keyword}
  IN IF later = {} THEN 0 ELSE CHOOSE i \in later : \A j \in later : i <= j
\* Temporal resolution: the first word after the cursor that is the keyword
\* (0 when there is none).
NextOccurrence(utterance, cursor, keyword) ==
  LET later == {i \in (cursor + 1)..Len(utterance) : utterance[i] = keyword}
  IN IF later = {} THEN 0 ELSE CHOOSE i \in later : \A j \in later : i <= j

\* The window of a keyword without an exact match, relative to the segment:
\* start = (wordIndex / totalWords) * segmentDuration, end = start + the average
\* word duration.
Interpolate(utterance, wordIndex) ==
  LET duration == Len(utterance) * MsPerWord
      start == (wordIndex * duration) \div Len(utterance)
  IN [start |-> start, end |-> start + duration \div Len(utterance)]

\* Box coordinates clamped to the output frame.
Clamp(box) ==
  LET x == Min(Max(box.x, 0), Frame.width)
      y == Min(Max(box.y, 0), Frame.height)
  IN Box(x, y, Min(box.width, Frame.width - x), Min(box.height, Frame.height - y))

\* Cue assembly: the element's box, the window moved to the master timeline.
OverlayCue(element, window, offset, keyword, confidence) ==
  [box |-> Clamp(element.box), start |-> offset + window.start,
   end |-> offset + window.end, text |-> keyword, confidence |-> confidence]

\* resolve is called with the elements and the word timestamps of the slides.
AlignStart(elements, words) ==
  [pc |-> "resolving", elements |-> elements, words |-> words,
   cursor |-> [s \in Slides |-> 0], cues |-> <<>>, log |-> <<>>]

\* One keyword of a line of the slide is resolved. wordIndex is where the
\* keyword stands in the line; consume says whether the temporal scan is made
\* for a keyword that has no element.
Resolve(slide, keyword, wordIndex, consume) ==
  /\ alignment # NoAlignment
  /\ alignment.pc = "resolving"
  /\ Len(alignment.log) < MaxResolutions
  /\ wordIndex < Len(alignment.words[slide])
  /\ LET utterance == alignment.words[slide]
         found == SpatialResolve(alignment.elements, slide, keyword)
         occurrence == NextOccurrence(utterance, alignment.cursor[slide], keyword)
         scanned == found # {} \/ consume
         used == IF scanned THEN occurrence ELSE 0
         window == IF occurrence > 0
                   THEN [start |-> WordStart(occurrence), end |-> WordEnd(occurrence)]
                   ELSE Interpolate(utterance, wordIndex)
         confidence == IF occurrence > 0 THEN "exact" ELSE "interpolated"
         entry == [slide |-> slide, keyword |-> keyword, used |-> used,
                   cue |-> found # {}]
     IN \E e \in IF found = {} THEN {NoAlignment} ELSE found :
          alignment' =
            [alignment EXCEPT
               !.cursor[slide] = IF used > 0 THEN used ELSE @,
               !.log = Append(@, entry),
               !.cues = IF found = {} THEN @
                        ELSE Append(@, OverlayCue(e, window,
                                                  SegmentStart(alignment.words, slide),
                                                  keyword, confidence))]
  /\ UNCHANGED <<inputVars, callVars, jobs, subtitleEntries, reviewVars, envVars, fsVars, jobVars, ttsVars,
                 script, totalDuration>>

\* resolve returns the list of cues.
AlignReturn ==
  /\ alignment # NoAlignment
  /\ alignment.pc = "resolving"
  /\ alignment' = [alignment EXCEPT !.pc = "returned"]
  /\ UNCHANGED <<inputVars, callVars, jobs, subtitleEntries, reviewVars, envVars, fsVars, jobVars, ttsVars,
                 script, totalDuration>>

InitAlign ==
  /\ \E elements \in SUBSET ElementUniverse, words \in [Slides -> Utterances] :
       alignment = AlignStart(elements, words)
  /\ plan = PlanStructure
  /\ subtitleEntries = <<>>
  /\ jobs = NoJobs
  /\ files = {}
  /\ clock = 0
  /\ issueList = <<>>
  /\ qualityScore = Undefined
  /\ script = NoScript
  /\ ttsPc = "idle"
  /\ sentences = <<>>
  /\ qualityCheckEnabled = TRUE
  /\ pc = "start"
  /\ status = "none"
  /\ active = {}
  /\ calls = <<>>
  /\ succeeded = {}
  /\ verdict = "none"
  /\ totalDuration = NoTime
  /\ outputPackage = NoPackage
  /\ returned = NoPackage
  /\ err = NoError
  /\ ttsPos = <<1, 1>>
  /\ audioSegments = <<>>
  /\ attempts = 0
  /\ currentTime = Number(0)
  /\ cancelRequested = FALSE
  /\ fsCalls = NoCalls
  /\ stamps = NoStamps
  /\ exitCode = Undefined
  /\ stderr = <<>>

NextAlign ==
  \/ \E slide \in Slides, keyword \in Tokens, wordIndex \in 0..MaxAlignWords,
        consume \in BOOLEAN :
       Resolve(slide, keyword, wordIndex, consume)
  \/ AlignReturn

SpecAlign == InitAlign /\ [][NextAlign]_vars

\* ====================================================== properties: execute

Range(seq) == {seq[i] : i \in 1..Len(seq)}
Terminal == pc \in {"returned", "thrown"}

\* The stages this configuration runs, in order, then packaging.
ExpectedCalls ==
  LET wanted == IF qualityCheckEnabled THEN Stages ELSE Stages \ {"quality_review"}
  IN SelectSeq(StageOrder, LAMBDA s : s \in wanted) \o <<"package">>

\* The stages that were called and came back failed: a ModuleError, a result
\* without success, or a reject verdict.
FailedStages ==
  {s \in Stages :
     /\ s \in Range(calls)
     /\ s \notin active
     /\ s \notin succeeded \/ (s = "quality_review" /\ verdict = "reject")}

\* C1 (fail-fast): once any stage has failed, that stage is the last call ever
\* made (no later stage, no packageOutputs), nothing is in progress, the job
\* status is Failed and execute has thrown without returning a package.
C1_FailFast ==
  \A s \in FailedStages :
    /\ calls[Len(calls)] = s
    /\ "package" \notin Range(calls)
    /\ active = {}
    /\ status = "failed"
    /\ pc = "thrown"
    /\ err # NoError
    /\ returned = NoPackage

\* A stage in the middle of the pipeline failed after the earlier ones succeeded.
C1_Witness ==
  /\ "video_composer" \in FailedStages
  /\ "tts" \in succeeded
  /\ status = "failed"

\* Every stage this configuration runs has returned a successful result.
AllStagesSucceeded ==
  /\ \A i \in 1..(Len(ExpectedCalls) - 1) : ExpectedCalls[i] \in succeeded
  /\ verdict # "reject"

\* C2 as stated: once execute has ended with every stage successful, the job
\* is Completed, the packager was invoked and execute returned its package.
C2_AsStated ==
  (Terminal /\ AllStagesSucceeded) =>
    /\ status = "completed"
    /\ "package" \in Range(calls)
    /\ returned # NoPackage
    /\ returned = outputPackage

\* C2 (amended): when every stage has succeeded the packager is invoked; if
\* packageOutputs succeeds too, the status is Completed and execute returns the
\* package it built (this job's id, the composed duration); if packageOutputs
\* throws, the job ends Failed and nothing is returned.  execute returns in no
\* other case.
C2_SuccessPath ==
  /\ AllStagesSucceeded => pc \in {"package", "returned", "thrown"}
  /\ (Terminal /\ AllStagesSucceeded) => "package" \in Range(calls)
  /\ (AllStagesSucceeded /\ "package" \in succeeded) =>
       /\ pc = "returned"
       /\ status = "completed"
       /\ returned = outputPackage
       /\ returned.jobId = JobId
       /\ returned.duration = totalDuration
  /\ (AllStagesSucceeded /\ pc = "thrown") =>
       /\ status = "failed"
       /\ returned = NoPackage
  /\ pc = "returned" => (AllStagesSucceeded /\ "package" \in succeeded)
  /\ status = "completed" => pc = "returned"

C2_Witness ==
  /\ pc = "returned"
  /\ status = "completed"
  /\ LessThan(Number(0), returned.duration)
  /\ qualityCheckEnabled

\* C3 (strict order): the calls made so far are a prefix of the fixed order,
\* every call but the last has returned successfully before its successor was
\* made, and at most one call is in progress.
C3_StrictOrder ==
  /\ Len(calls) <= Len(ExpectedCalls)
  /\ \A i \in 1..Len(calls) : calls[i] = ExpectedCalls[i]
  /\ \A i \in 1..(Len(calls) - 1) : calls[i] \in succeeded /\ calls[i] \notin active
  /\ Cardinality(active) <= 1
  /\ active \subseteq (IF calls = <<>> THEN {} ELSE {calls[Len(calls)]})

C3_Witness ==
  /\ Len(calls) = Len(StageOrder) + 1
  /\ active = {"package"}

\* The review returns `revise` in this step.
ReviseStep ==
  /\ pc = "quality_review"
  /\ "quality_review" \in active
  /\ verdict' = "revise"

\* C4 (verdicts): a step in which the review returns `revise` goes on to
\* speech synthesis with the script untouched, no error and the status
\* unchanged; once the verdict is `reject`, the job is Failed, execute has
\* thrown, and neither speech synthesis nor any later stage nor packaging was
\* ever called.
C4_Verdicts ==
  /\ [][ReviseStep =>
          /\ pc' = "tts"
          /\ script' = script
          /\ script' = generateScript(sentences, PlanStructure)
          /\ status' = "in_progress"
          /\ err' = NoError]_vars
  /\ [](verdict = "reject" =>
          /\ pc = "thrown"
          /\ status = "failed"
          /\ calls[Len(calls)] = "quality_review"
          /\ Range(calls) \cap {"tts", "subtitle_generator", "video_composer",
                                "thumbnail_generator", "package"} = {})

\* A job whose review said `revise` ended Completed.
C4_Witness ==
  /\ verdict = "revise"
  /\ status = "completed"
  /\ pc = "returned"

\* Error.name of what a generic stage failure raises in execute.
GenericFailureNames ==
  {StageFailedError(s).name : s \in Stages} \cup {ModuleError(s).name : s \in Stages}

\* C5 as stated: the error thrown for a `reject` verdict is of a kind no generic
\* stage failure has.
C5_DistinctKind ==
  (pc = "thrown" /\ verdict = "reject") => err.name \notin GenericFailureNames

\* C6 as stated: whatever execute throws carries the failing stage's identity
\* and the underlying cause.
C6_Wrapped ==
  pc = "thrown" =>
    /\ err.moduleType # "none"
    /\ calls # <<>> => err.moduleType = calls[Len(calls)]
    /\ err.originalError

\* ============================================ properties: TTSModule.execute

\* The lines of a script in generation order: sections in order, lines in
\* order within a section.
RECURSIVE FlattenLines(_)
FlattenLines(sections) ==
  IF sections = <<>> THEN <<>>
  ELSE sections[1].lines \o FlattenLines(Tail(sections))

\* The Timeline invariant of a list of segments.
Gapless(segments) ==
  /\ segments # <<>> => segments[1].startTime = Number(0)
  /\ \A i \in 1..Len(segments) : LessThan(segments[i].startTime, segments[i].endTime)
  /\ \A i \in 1..(Len(segments) - 1) :
       /\ segments[i].endTime = segments[i + 1].startTime
       /\ LessThan(segments[i].endTime, segments[i + 1].endTime)

\* C7 (timeline invariant): after a successful run of TTSModule.execute on any
\* script, the first segment starts at 0, every segment ends where the next
\* one starts (also across section boundaries) and the ends increase.
C7_Timeline == ttsPc = "returned" => Gapless(audioSegments)

\* A successful run over lines of different lengths in more than one section.
C7_Witness ==
  /\ ttsPc = "returned"
  /\ Len(audioSegments) >= 3
  /\ \E i \in 1..(Len(audioSegments) - 1) :
       /\ audioSegments[i].lineId[1] # audioSegments[i + 1].lineId[1]
       /\ audioSegments[i].duration # audioSegments[i + 1].duration

\* C8 (line order): after a successful run there is exactly one segment per
\* ScriptLine, and the i-th segment carries the id of the i-th line in
\* generation order.
C8_LineOrder ==
  ttsPc = "returned" =>
    LET lines == FlattenLines(script.sections)
    IN /\ Len(audioSegments) = Len(lines)
       /\ \A i \in 1..Len(lines) : audioSegments[i].lineId = lines[i].id

\* A successful run over a script whose first section is empty and whose
\* second section has several lines.
C8_Witness ==
  /\ ttsPc = "returned"
  /\ Len(script.sections) >= 2
  /\ script.sections[1].lines = <<>>
  /\ Len(audioSegments) >= 2

\* ==================================== properties: calculateQualityScore

CountOf(list, sev) == Cardinality({i \in 1..Len(list) : list[i] = sev})

\* The sum of the penalties of a list, by counting each severity.
TotalPenalty(list) ==
  30 * CountOf(list, "critical") + 20 * CountOf(list, "high")
    + 10 * CountOf(list, "medium") + 5 * CountOf(list, "low")

\* C9 (score formula): the score of any issue list is max(0, 100 - penalties),
\* with 30 / 20 / 10 / 5 per critical / high / medium / low issue, and so lies
\* within [0, 100].
C9_ScoreFormula ==
  qualityScore # Undefined =>
    /\ qualityScore = Max(0, 100 - TotalPenalty(issueList))
    /\ qualityScore >= 0
    /\ qualityScore <= 100

\* A list whose penalties exceed 100 was scored and floored at 0.
C9_Witness ==
  /\ qualityScore = 0
  /\ TotalPenalty(issueList) > 100

\* C10 (monotone): a step that adds one issue to a scored list, at any
\* position, never yields a greater score.
C10_Monotone ==
  [][(qualityScore # Undefined /\ Len(issueList') = Len(issueList) + 1)
       => qualityScore' <= qualityScore]_vars

\* An issue was added to a list that already had MaxIssues issues and a score.
C10_Witness ==
  /\ qualityScore # Undefined
  /\ Len(issueList) > MaxIssues
  /\ qualityScore > 0
  /\ qualityScore < BaseScore

\* The issues of list taken in the order p, a permutation of its indices.
Permute(list, p) == [i \in 1..Len(list) |-> list[p[i]]]

\* The running total of the loop after the first k issues, before the floor.
RunningTotal(list, k) == ScoreLoop(SubSeq(list, 1, k), 1, BaseScore)

\* C11 (order independence): the score computed for an issue list is the
\* score of every permutation of that list, so any two permutations of it
\* have the same score, also when the running total falls below 0 part-way.
C11_OrderIndependent ==
  qualityScore # Undefined =>
    \A p \in Permutations(1..Len(issueList)) :
      calculateQualityScore(Permute(issueList, p)) = qualityScore

\* A list of mixed severities was scored whose running total is already
\* below 0 before its last issue.
C11_Witness ==
  /\ qualityScore # Undefined
  /\ \E i, j \in 1..Len(issueList) : issueList[i] # issueList[j]
  /\ \E k \in 1..(Len(issueList) - 1) : RunningTotal(issueList, k) < 0

\* C12 (recommendation from the score): approve exactly for a score of at
\* least 80, revise exactly for 60 <= score < 80, reject exactly below 60;
\* a review with no issues scores 100 and approves.
C12_Recommendation ==
  qualityScore # Undefined =>
    /\ verdict = "approve" <=> qualityScore >= 80
    /\ verdict = "revise" <=> (qualityScore >= 60 /\ qualityScore < 80)
    /\ verdict = "reject" <=> qualityScore < 60
    /\ issueList = <<>> => (qualityScore = 100 /\ verdict = "approve")

\* A list scoring exactly 60, the lower edge of revise, was scored.
C12_Witness ==
  /\ qualityScore = 60
  /\ verdict = "revise"

\* ============================================ properties: the job's life

\* C13 (Pending first): the job's status becomes InProgress only from
\* Pending: execute creates the Job as Pending and then moves it to
\* InProgress, before the output directory and the first stage.
C13_PendingFirst ==
  [][(status # "in_progress" /\ status' = "in_progress") => status = "pending"]_vars

\* ============================================ properties: the script object

\* The script with the two timestamps of every line put back to undefined.
ClearTimestamps(sc) ==
  [sections |->
     [i \in 1..Len(sc.sections) |->
        [sc.sections[i] EXCEPT !.lines =
           [j \in 1..Len(sc.sections[i].lines) |->
              StampLine(sc.sections[i].lines[j], NoTime, NoTime)]]]]

\* C14 as stated: once script generation has returned, the script is the
\* value it returned, whatever stage has run since.
C14_AsStated ==
  "script_generator" \in succeeded => script = generateScript(sentences, PlanStructure)

\* C14 (amended): the script that script generation returned is unchanged
\* until TTS is invoked; TTS writes into it, and only the startTime and
\* endTime of the lines it has synthesized: every other field, the lines and
\* the sections are as generated, at every later point of the job.
C14_OnlyTimestamps ==
  "script_generator" \in succeeded =>
    LET generated == generateScript(sentences, PlanStructure)
        lines == FlattenLines(script.sections)
    IN /\ "tts" \notin Range(calls) => script = generated
       /\ ClearTimestamps(script) = generated
       /\ \A i \in 1..Len(lines) :
            IF i <= Len(audioSegments)
            THEN /\ lines[i].startTime = audioSegments[i].startTime
                 /\ lines[i].endTime = audioSegments[i].endTime
            ELSE /\ lines[i].startTime = NoTime
                 /\ lines[i].endTime = NoTime

\* The video was composed from a script that TTS has written timestamps into.
C14_Witness ==
  /\ "video_composer" \in succeeded
  /\ script # generateScript(sentences, PlanStructure)
  /\ Len(audioSegments) >= 2

\* ============================================ properties: no retries

\* C15 (no cross-stage retries): within one execute call no stage (nor
\* packaging) is invoked more than once, and once the job has failed no call
\* is in flight and execute is past its catch block, so neither the failed
\* stage nor an earlier one is invoked again.
C15_NoRetry ==
  /\ \A i, j \in 1..Len(calls) : i # j => calls[i] # calls[j]
  /\ status = "failed" => (active = {} /\ pc = "thrown")

\* Speech synthesis failed part-way, after a review that asked for a revision.
C15_Witness ==
  /\ "tts" \in FailedStages
  /\ Len(audioSegments) >= 1
  /\ verdict = "revise"
  /\ pc = "thrown"

\* ============================================ properties: the optional review

\* The positions of a call in the list of calls made.
CallsOf(s) == {i \in 1..Len(calls) : calls[i] = s}

\* C19 (optional review): with the quality check disabled the review is never
\* invoked and TTS is the call right after script generation; with it enabled
\* the review is invoked at most once, right after script generation, and
\* when TTS is invoked exactly one review call lies between the two.
C19_OptionalReview ==
  /\ ~qualityCheckEnabled =>
       /\ CallsOf("quality_review") = {}
       /\ \A i \in CallsOf("tts") : i > 1 /\ calls[i - 1] = "script_generator"
  /\ qualityCheckEnabled =>
       /\ Cardinality(CallsOf("quality_review")) <= 1
       /\ \A i \in CallsOf("quality_review") :
            i > 1 /\ calls[i - 1] = "script_generator"
       /\ \A i \in CallsOf("tts") :
            /\ i > 2
            /\ calls[i - 1] = "quality_review"
            /\ calls[i - 2] = "script_generator"
            /\ Cardinality(CallsOf("quality_review")) = 1

\* A job without the quality check ran through TTS to the end.
C19_Witness ==
  /\ ~qualityCheckEnabled
  /\ CallsOf("tts") # {}
  /\ pc = "returned"

\* ============================================ properties: the command line

\* C20 (exit code): the process ends with 0 only if execute returned an
\* OutputPackage (or main printed its usage without calling execute), and
\* with 1 only if execute threw and a message was written to the error
\* stream first; once the process has ended after execute, the code is 0
\* exactly when execute returned and 1 exactly when it threw.
C20_ExitCode ==
  /\ exitCode \in {Undefined, 0, 1}
  /\ exitCode = 0 =>
       \/ pc = "returned" /\ returned # NoPackage /\ stderr = <<>>
       \/ pc = "exited" /\ calls = <<>>
  /\ exitCode = 1 =>
       /\ pc = "thrown"
       /\ err # NoError
       /\ stderr # <<>>
       /\ stderr[Len(stderr)] = ErrorLine("main", "error", err.message)
  /\ (exitCode # Undefined /\ pc = "returned") => exitCode = 0
  /\ (exitCode # Undefined /\ pc = "thrown") => exitCode = 1

\* The process ended after the review rejected the script.
C20_Witness ==
  /\ exitCode = 1
  /\ verdict = "reject"
  /\ stderr # <<>>

\* ============================================ properties: external calls

\* C16 (retry before fatal): a rejected synthesizeSpeech call ends the TTS
\* stage only when it was not the first attempt for its line, i.e. the call
\* was retried at least once before the failure became fatal.
C16_RetriedBeforeFatal ==
  [][(ttsPc = "synthesize" /\ ttsPc' = "thrown" /\ attempts' # attempts) => attempts' >= 2]_vars

\* C17 (cancellation): once cancellation has been requested part-way through
\* TTS, no video file is ever written and the job ends Failed.
C17_Cancellation ==
  cancelRequested =>
    /\ ~\E f \in files : f.content = "...MP4..."
    /\ Terminal => status = "failed"

\* ============================================ properties: the working area

\* C18 (temporary artifacts preserved): a step that fails the job, and every
\* step after it, leaves each file that existed before it in place with its
\* content: the failure path deletes and overwrites nothing.
C18_TempPreserved ==
  [][status' = "failed" => files \subseteq files']_vars

\* The thumbnail stage failed with the audio, subtitle and video files of the
\* earlier stages in the working area.
C18_Witness ==
  /\ status = "failed"
  /\ "thumbnail_generator" \in FailedStages
  /\ \E f \in files : f.path = WithSubsPath(stamps["video_composer"])
  /\ \E f \in files : f.path.name = "audio"
  /\ \E f \in files : f.path.name = "subtitles"

\* ============================================ properties: packaging

\* C21 (no partial final files): whatever point packageOutputs has reached,
\* and also when it failed part-way, every file present under one of the
\* final names in the job directory is a complete file.
C21_NoPartialFinalFile ==
  \A f \in files : f.path.dir = FinalPath("").dir => f.content \notin {Partial, Empty}

\* The final files of the job directory that are present.
FinalFiles == {f \in files : f.path.dir = FinalPath("").dir}

\* C25 (Completed only after packaging): the status is Completed only when
\* packageOutputs has returned, with all its files written; while it runs
\* the job is InProgress, and when it throws after nine successful stages
\* the job is Failed, execute throws and nothing is returned.
C25_CompletedAfterPackaging ==
  /\ status = "completed" =>
       /\ "package" \in succeeded
       /\ {f.path : f \in FinalFiles} =
            {PackageOps[i].path : i \in 1..Len(PackageOps)}
  /\ "package" \in active => status = "in_progress"
  /\ ("package" \in Range(calls) /\ "package" \notin active /\ "package" \notin succeeded) =>
       /\ status = "failed"
       /\ pc = "thrown"
       /\ returned = NoPackage
       /\ AllStagesSucceeded

\* packageOutputs threw after copying the video and before writing the
\* metadata.
C25_Witness ==
  /\ pc = "thrown"
  /\ "package" \in Range(calls)
  /\ \E f \in FinalFiles : f.path = FinalPath("final_video.mp4")
  /\ ~\E f \in FinalFiles : f.path = FinalPath("metadata.json")

\* ============================================ properties: two jobs

\* The paths job j has written a file under so far.
WrittenBy(j) ==
  LET stagesDone == {FileStages[k] : k \in 1..jobs[j].done}
      count == jobs[j].made + (IF jobs[j].open THEN 1 ELSE 0)
      current ==
        IF jobs[j].done < Len(FileStages)
        THEN JobStageOps(FileStages[jobs[j].done + 1], jobs[j].at)
        ELSE PackageOpsIn(j, jobs[j].at)
  IN UNION {{JobStageOps(s, jobs[j].at)[i].path : i \in 1..Len(JobStageOps(s, jobs[j].at))} :
              s \in stagesDone}
       \cup {current[i].path : i \in 1..(IF jobs[j].packaged THEN Len(current) ELSE count)}

\* C22 (nothing shared across jobs): two execute calls never write a file
\* under the same path, and every file in a job's directory holds data that
\* the job itself wrote.
C22_NoSharedFile ==
  /\ \A j, k \in Jobs : j # k => WrittenBy(j) \cap WrittenBy(k) = {}
  /\ \A f \in files : f.path.dir \in Jobs => f.content[1] = f.path.dir

\* ========================================== properties: AlignmentEngine

\* The resolutions made so far whose keyword is a token of some element of
\* their slide.
Located ==
  SelectSeq(alignment.log,
            LAMBDA r : MatchingElements(alignment.elements, r.slide, r.keyword) # {})

\* C23: a keyword for which no SlideElement of the line's slide matches produces
\* no cue, and resolution goes on without failing: the cues are, in order, one
\* per resolved keyword that has a matching element, each with the box of such
\* an element, and resolve is still running or has returned.
C23_NoFabrication ==
  alignment # NoAlignment =>
    /\ alignment.pc \in {"resolving", "returned"}
    /\ Len(alignment.cues) = Len(Located)
    /\ \A i \in 1..Len(Located) :
         /\ alignment.cues[i].text = Located[i].keyword
         /\ \E e \in MatchingElements(alignment.elements, Located[i].slide,
                                      Located[i].keyword) :
              alignment.cues[i].box = Clamp(e.box)

\* resolve has returned cues after it met a keyword without a matching element.
C23_Witness ==
  /\ alignment # NoAlignment
  /\ alignment.pc = "returned"
  /\ alignment.cues # <<>>
  /\ \E i \in 1..Len(alignment.log) :
       /\ ~alignment.log[i].cue
       /\ i < Len(alignment.log)
       /\ alignment.log[i + 1].cue

\* The word occurrences the resolutions before the n-th consumed on its slide.
UsedBefore(n) ==
  {alignment.log[i].used : i \in {k \in 1..(n - 1) :
      /\ alignment.log[k].slide = alignment.log[n].slide
      /\ alignment.log[k].used > 0}}

\* C24: the word timestamps of a slide are consumed forward only: a resolution
\* that uses an occurrence uses an occurrence of its keyword that lies after
\* every occurrence used before on the slide, and the first such one.
C24_MonotonicCursor ==
  alignment # NoAlignment =>
    \A n \in 1..Len(alignment.log) :
      LET r == alignment.log[n]
          utterance == alignment.words[r.slide]
      IN r.used > 0 =>
           /\ utterance[r.used] = r.keyword
           /\ \A u \in UsedBefore(n) : u < r.used
           /\ \A k \in 1..(r.used - 1) :
                utterance[k] = r.keyword => \E u \in UsedBefore(n) : k <= u

\* The same keyword has been resolved twice on a slide, each time to an
\* occurrence in the word timestamps.
C24_Witness ==
  /\ alignment # NoAlignment
  /\ \E m, n \in 1..Len(alignment.log) :
       /\ m < n
       /\ alignment.log[m].slide = alignment.log[n].slide
       /\ alignment.log[m].keyword = alignment.log[n].keyword
       /\ alignment.log[m].used > 0
       /\ alignment.log[n].used > 0
       /\ alignment.log[m].cue
       /\ alignment.log[n].cue

\* ================================== properties: SubtitleGeneratorModule

\* HH:MM:SS,mmm a is before HH:MM:SS,mmm b.
EarlierThan(a, b) == \E j \in 1..4 : a[j] < b[j] /\ \A k \in 1..(j - 1) : a[k] = b[k]

\* The lines carry the windows of their segments, and the entries are one per
\* line, in the order of the timeline.
TimedAndSubtitled ==
  LET lines == FlattenLines(script.sections)
  IN /\ "tts" \in succeeded =>
          /\ Len(audioSegments) = Len(lines)
          /\ \A i \in 1..Len(lines) :
               /\ audioSegments[i].lineId = lines[i].id
               /\ lines[i].startTime = audioSegments[i].startTime
               /\ lines[i].endTime = audioSegments[i].endTime
          /\ AllLinesTimed(script)
     /\ "subtitle_generator" \in succeeded =>
          /\ Len(subtitleEntries) = Len(lines)
          /\ \A i \in 1..Len(lines) :
               /\ subtitleEntries[i].index = i
               /\ subtitleEntries[i].text = lines[i].words
               /\ EarlierThan(subtitleEntries[i].startTime, subtitleEntries[i].endTime)
          /\ \A i \in 1..(Len(lines) - 1) :
               /\ ~LessThan(lines[i + 1].startTime, lines[i].endTime)
               /\ ~EarlierThan(subtitleEntries[i + 1].startTime, subtitleEntries[i].endTime)

\* The subtitle stage returns the formatted window of line i in entry i.
FormattedWindows ==
  ("subtitle_generator" \in succeeded' /\ "subtitle_generator" \notin succeeded) =>
    LET lines == FlattenLines(script'.sections)
    IN /\ Len(subtitleEntries') = Len(lines)
       /\ \A i \in 1..Len(lines) :
            /\ subtitleEntries'[i].startTime = formatSRTTime(lines[i].startTime)
            /\ subtitleEntries'[i].endTime = formatSRTTime(lines[i].endTime)

\* C26: once speech synthesis has succeeded every ScriptLine carries the window
\* of its audio segment, so the subtitle stage's validate finds no line without
\* a timestamp; and a successful subtitle stage has emitted one entry per
\* ScriptLine, indexed 1..n, entry i with the formatted window of line i, the
\* windows following each other in timeline order; script and entries stay as
\* they are from then on.
C26_OneEntryPerLine ==
  /\ []TimedAndSubtitled
  /\ [][FormattedWindows]_vars
  /\ [][("subtitle_generator" \in succeeded) =>
          (script' = script /\ subtitleEntries' = subtitleEntries)]_vars

\* The subtitle stage has succeeded on a script of several lines.
C26_Witness ==
  /\ "subtitle_generator" \in succeeded
  /\ Len(FlattenLines(script.sections)) >= 2
  /\ Len(subtitleEntries) >= 2

\* C28: in one run of TTSModule.execute every audio segment has its own file:
\* the filePath values of two segments differ (so that no line's synthesis
\* writes over the file of an earlier line), and no segment's file is the
\* master file.
C28_OwnSegmentFile ==
  /\ \A i, j \in 1..Len(audioSegments) :
       i # j => audioSegments[i].filePath # audioSegments[j].filePath
  /\ \A i \in 1..Len(audioSegments) : audioSegments[i].filePath.name # "master_audio"

\* ======================================= properties: QualityReviewModule

\* C27: with the implemented review, reviewScript reports at most one issue,
\* of severity high, so the score is 100 or 80 and the recommendation approve;
\* execute never takes the reject branch and no run fails with the error of a
\* quality rejection.
C27_NeverRejected ==
  /\ Len(issueList) <= 1
  /\ \A i \in 1..Len(issueList) : issueList[i] = "high"
  /\ qualityScore \in {Undefined, 100, 80}
  /\ "quality_review" \in succeeded =>
       /\ qualityScore = 100 - 20 * Len(issueList)
       /\ verdict = "approve"
  /\ verdict \in {"none", "approve"}
  /\ err # QualityRejectedError

\* A run whose review reported the issue and that went on to completion.
C27_Witness ==
  /\ issueList = <<"high">>
  /\ qualityScore = 80
  /\ status = "completed"

\* ===================================== properties: ScriptGeneratorModule

\* C29: generateScript spreads the sentences over the plan's sections: as many
\* sections as plan entries, section i with order i (from 0) and the type of
\* plan entry i, the lines of every section with order 0, 1, 2, ..., and the
\* lines of all sections in order are the sentences, each once, in their order.
C29_Partition ==
  script # NoScript =>
    LET lines == FlattenLines(script.sections)
    IN /\ Len(script.sections) = Len(plan)
       /\ \A i \in 1..Len(plan) :
            /\ script.sections[i].order = i - 1
            /\ script.sections[i].type = plan[i]
            /\ \A j \in 1..Len(script.sections[i].lines) :
                 script.sections[i].lines[j].order = j - 1
       /\ Len(lines) = Len(sentences)
       /\ \A n \in 1..Len(sentences) : lines[n].words = sentences[n]

\* Sentences of different lengths spread over several sections, one of them
\* with more than one line and the last one short.
C29_Witness ==
  /\ script # NoScript
  /\ Len(script.sections) >= 2
  /\ \E i \in 1..Len(sentences) : sentences[i] # sentences[1]
  /\ Len(script.sections[1].lines) >= 2
  /\ Len(script.sections[Len(script.sections)].lines) < Len(script.sections[1].lines)

\* ============================== properties: a script without any line

\* The generated script has sections and not one line.
NoLines ==
  /\ "script_generator" \in succeeded
  /\ Len(script.sections) >= 1
  /\ FlattenLines(script.sections) = <<>>

\* The files of the video stage.
VideoFiles ==
  {f \in files : f.path.name \in {"background", "background_with_audio",
                                  "background_with_audio_with_subs"}}

\* C30: a script with sections and no lines passes the validation of speech
\* synthesis, which ends with no segment and totalDuration 0; the subtitle
\* stage succeeds with no entry, its file holding no text; the video stage
\* cannot succeed, so the run thrown after the subtitle stage failed at video
\* composition, with no video file, and neither the thumbnail stage nor
\* packaging is ever called.
C30_EmptyScriptFailsAtVideo ==
  NoLines =>
    /\ ttsPc = "thrown" => ttsPos = <<Len(script.sections) + 1, 1>>
    /\ ttsPc = "returned" => audioSegments = <<>> /\ currentTime = Number(0)
    /\ "tts" \in succeeded => totalDuration = Number(0)
    /\ "subtitle_generator" \in succeeded =>
         /\ subtitleEntries = <<>>
         /\ \A f \in files : f.path.name = "subtitles" => f.content = Empty
    /\ "video_composer" \notin succeeded
    /\ VideoFiles = {}
    /\ Range(calls) \cap {"thumbnail_generator", "package"} = {}
    /\ status # "completed"
    /\ (pc = "thrown" /\ "subtitle_generator" \in succeeded) =>
         /\ status = "failed"
         /\ err = ModuleError("video_composer")

\* The run of a script without lines has failed at video composition after
\* speech synthesis and the subtitle stage succeeded.
C30_Witness ==
  /\ NoLines
  /\ {"tts", "subtitle_generator"} \subseteq succeeded
  /\ \E f \in files : f.path.name = "subtitles" /\ f.content = Empty
  /\ totalDuration = Number(0)
  /\ pc = "thrown"
  /\ status = "failed"
  /\ err = ModuleError("video_composer")

====
